---- MODULE Spec2Model ----
(***************************************************************************)
(* Verification model of backend/retrieval.py (llm-council): the           *)
(* aggregation entry point fetch_context_items, its merge pass (collect,   *)
(* deduplicate, rank, truncate) and the seven source adapters it           *)
(* dispatches.                                                             *)
(*                                                                         *)
(* Two specifications share the module:                                    *)
(*   Spec          one call of fetch_context_items; the seven adapters are *)
(*                 coroutines that resolve in any order, each by returning *)
(*                 a list of records or by raising.                        *)
(*   SpecAdapters  one call of one adapter; the HTTP exchanges and the     *)
(*                 response bodies are the inputs.                         *)
(*                                                                         *)
(* Python values are represented as follows.  Strings are TLA+ strings,    *)
(* None is the value None below.  A published_at value is a record         *)
(* [kind, t]: the canonical display string of minute t, the placeholder    *)
(* "Unknown date", a string no parser accepts, a string only the second    *)
(* strptime format of _parse_datetime accepts, or a non-string payload     *)
(* value.  Instants are ticks counted from datetime.min, at the resolution *)
(* of the display string.                                                  *)
(*                                                                         *)
(* A third specification, SpecFunctions, applies the pure helpers          *)
(* (_format_timestamp, _parse_datetime, _build_context_item and the        *)
(* payload parsers) to inputs drawn from bounded sets.  A fourth,          *)
(* SpecLive, is Spec under the scheduling of the event loop, for the       *)
(* termination of the call.                                                *)
(***************************************************************************)
EXTENDS Integers, Sequences, FiniteSets, TLC

VARIABLES
    \* ---- fetch_context_items ----
    pc,            \* position in fetch_context_items
    limit,         \* the limit argument
    status,        \* per task: "created", "running", "returned", "raised"
    calls,         \* per task: how many times the adapter coroutine was started
    chunks,        \* what asyncio.gather holds per task
    results,       \* line 55
    deduped,       \* line 63: the dict, as a sequence of [key, item] in insertion order
    sorted_items,  \* line 75
    ret,           \* what the caller receives
    \* ---- one adapter call ----
    apc,           \* position in the adapter
    adapter,       \* which adapter is called
    query,         \* the query argument
    maxn,          \* max_results / max_repos / max_articles / max_items
    params,        \* query parameters of the request, where the model follows them
    http,          \* the HTTP exchanges of the call, per request
    cursor,        \* loop index of the adapter's feed / repository loop
    items,         \* records accumulated by the adapter
    aret,          \* what the adapter's caller receives
    \* ---- one application of a pure helper ----
    fpc,           \* position: which helper has been applied so far
    fargs,         \* the arguments
    fres           \* the values computed from them

aggVars == <<pc, limit, status, calls, chunks, results, deduped, sorted_items, ret>>
adVars  == <<apc, adapter, query, maxn, params, http, cursor, items, aret>>
fnVars  == <<fpc, fargs, fres>>
vars    == <<aggVars, adVars, fnVars>>

----------------------------------------------------------------------------
(* Bounds of the model *)

\* limit ranges over -1..MaxLimit
MaxLimit == 3

\* max_results, max_repos, max_articles and max_items range over 0..MaxN
MaxN == 2

\* resolution of instants: ticks per day
TicksPerDay == 2

\* time of day of datetime.now(), in ticks after midnight
NowTimeOfDay == 1

----------------------------------------------------------------------------
(* Python values *)

None == "<None>"

\* truthiness of an Optional[str]
Truthy(s) == s \notin {None, ""}

\* a or b, on Optional[str]
Or(a, b) == IF Truthy(a) THEN a ELSE b

Min2(a, b) == IF a <= b THEN a ELSE b
Max2(a, b) == IF a >= b THEN a ELSE b

\* mutant of SliceTo: off by one, seq[:n + 1]
SliceTo_plus_one(seq, n) ==
    IF n + 1 >= 0 THEN SubSeq(seq, 1, Min2(n + 1, Len(seq)))
    ELSE SubSeq(seq, 1, Max2(Len(seq) + n + 1, 0))

\* seq[:n], Python slice semantics (a negative n counts from the end)
SliceTo(seq, n) ==
    IF n >= 0 THEN SubSeq(seq, 1, Min2(n, Len(seq)))
    ELSE SubSeq(seq, 1, Max2(Len(seq) + n, 0))

----------------------------------------------------------------------------
(* Timestamps *)

\* datetime.min, the instant 0001-01-01 00:00
datetime_min == 0

\* marks a TypeError raised while computing an orderable time
TypeError == 0 - 1

Canonical(t)  == [kind |-> "canonical", t |-> t]   \* "YYYY-MM-DD HH:MM UTC"
UnknownDate   == [kind |-> "unknown", t |-> 0]     \* "Unknown date"
RawString     == [kind |-> "rawstring", t |-> 0]   \* e.g. "Wed, 02 Oct 2024 15:00:00 +0000"
IsoSecondsZ(t) == [kind |-> "isoz", t |-> t]       \* e.g. "2024-1-1T0:0:0Z"
NonString     == [kind |-> "nonstring", t |-> 0]   \* e.g. the JSON number 12345
NoTimestamp   == [kind |-> "none", t |-> 0]        \* None or ""

\* mutant of _parse_datetime: the display format is missing from the strptime
\* formats, so the display string falls through to fromisoformat, which
\* rejects it
_parse_datetime_without_display_format(timestamp) ==
    CASE timestamp.kind = "isoz"      -> timestamp.t
      [] timestamp.kind = "nonstring" -> TypeError
      [] OTHER                        -> datetime_min

\* _parse_datetime: the orderable time of a published_at value, or TypeError
\* when strptime is handed a non-string (only ValueError is caught there).
_parse_datetime(timestamp) ==
    CASE timestamp.kind = "none"      -> datetime_min
      [] timestamp.kind = "unknown"   -> datetime_min
      [] timestamp.kind = "canonical" -> timestamp.t
      [] timestamp.kind = "isoz"      -> timestamp.t
      [] timestamp.kind = "nonstring" -> TypeError
      [] OTHER                        -> datetime_min

\* Raw timestamps as the providers send them: a record [fmt, t, off].
\*   "none"      None or "" (no timestamp)
\*   "iso"       ISO-8601 with Z or a numeric offset: wall-clock minute t at
\*               UTC offset off
\*   "rfc822"    "Wed, 02 Oct 2024 15:00:00 GMT": minute t
\*   "canonical" already "YYYY-MM-DD HH:MM UTC": minute t
\*   "garbage"   a string neither parser of _format_timestamp accepts
\*   "number"    a truthy non-string (a JSON number, list or object)
NoRaw          == [fmt |-> "none", t |-> 0, off |-> 0]
Iso(t, off)    == [fmt |-> "iso", t |-> t, off |-> off]
Rfc822(t)      == [fmt |-> "rfc822", t |-> t, off |-> 0]
CanonicalRaw(t) == [fmt |-> "canonical", t |-> t, off |-> 0]
Garbage        == [fmt |-> "garbage", t |-> 0, off |-> 0]
Number         == [fmt |-> "number", t |-> 0, off |-> 0]
\* "Wed, 02 Oct 2024 15:00:00 +0500": RFC-822 with a numeric zone, which the
\* strptime format of _format_timestamp (%Z) does not accept
Rfc822Offset(t, off) == [fmt |-> "rfc822offset", t |-> t, off |-> off]
\* the string "Unknown date" itself
UnknownLiteral == [fmt |-> "unknown", t |-> 0, off |-> 0]

\* _format_timestamp: strftime prints the parsed wall clock (the offset of an
\* aware datetime is not applied); what no parser accepts is returned as is,
\* a non-string included (its .replace raises inside the try).
_format_timestamp(timestamp) ==
    CASE timestamp.fmt = "none"      -> UnknownDate
      [] timestamp.fmt = "iso"       -> Canonical(timestamp.t)
      [] timestamp.fmt = "rfc822"    -> Canonical(timestamp.t)
      [] timestamp.fmt = "canonical" -> Canonical(timestamp.t)
      [] timestamp.fmt = "unknown"   -> UnknownDate
      [] timestamp.fmt = "number"    -> NonString
      [] timestamp.fmt = "year"      -> NonString
      [] OTHER                       -> RawString

\* Optional[datetime]: an instant, or NoDatetime for None
NoDatetime == 0 - 2

\* default of max_age_days (lines 167, 200, 229)
max_age_days == 365

\* midnight of day d, as an instant
Midnight(d) == d * TicksPerDay

\* the day datetime.now(timezone.utc) falls on in this model
Today == 2 * max_age_days

\* datetime.now(timezone.utc)
now == Midnight(Today) + NowTimeOfDay

\* now - timedelta(days=max_age_days)
AgeCutoff(days) == now - days * TicksPerDay

\* a date-only ISO string of day d, and the integer year whose 1 January is day d
DateOnly(d) == [fmt |-> "iso", t |-> Midnight(d), off |-> 0]
YearInt(d)  == [fmt |-> "year", t |-> Midnight(d), off |-> 0]

\* _coerce_datetime: the instant in UTC, or None.  An int year is tried as
\* "<year>-01-01"; the canonical display string and other unparseable text
\* give None.
_coerce_datetime(raw) ==
    CASE raw.fmt = "iso"    -> raw.t - raw.off
      [] raw.fmt = "year"   -> raw.t
      [] raw.fmt = "rfc822" -> raw.t
      [] raw.fmt = "rfc822offset" -> raw.t - raw.off
      [] OTHER              -> NoDatetime

\* mutant of TooOld: an entry without a usable date is dropped as well
TooOld_or_undated(published_dt, days) ==
    published_dt = NoDatetime \/ published_dt < AgeCutoff(days)

\* published_dt and published_dt < now - timedelta(days=max_age_days)
TooOld(published_dt, days) ==
    published_dt # NoDatetime /\ published_dt < AgeCutoff(days)

\* published_dt.isoformat() if published_dt else None
IsoformatOrNone(published_dt) ==
    IF published_dt = NoDatetime THEN NoRaw ELSE Iso(published_dt, 0)

\* _strip_html on the texts of this model
_strip_html(text) ==
    CASE ~Truthy(text)          -> ""
      [] text = "<p>Fresh</p>"  -> "Fresh"
      [] OTHER                  -> text

----------------------------------------------------------------------------
(* Record builder *)

\* mutant of _build_context_item: the fields are stored as they come
_build_context_item_without_defaults(provider, source, title, summary, url, published_at, content, extra) ==
    [provider |-> provider, source |-> source, title |-> title, summary |-> summary,
     url |-> url, published_at |-> published_at, content |-> content]

\* extra is a sequence of <<key, value>> pairs; None and {} are both <<>>.
_build_context_item(provider, source, title, summary, url, published_at, content, extra) ==
    LET item == [provider     |-> provider,
                 source       |-> Or(source, provider),
                 title        |-> Or(title, "Untitled"),
                 summary      |-> Or(summary, ""),
                 url          |-> url,
                 published_at |-> IF published_at = NoTimestamp
                                  THEN UnknownDate ELSE published_at,
                 content      |-> Or(content, Or(summary, ""))]
    IN IF extra # <<>>
       THEN [provider |-> item.provider, source |-> item.source, title |-> item.title,
             summary |-> item.summary, url |-> item.url,
             published_at |-> item.published_at, content |-> item.content,
             metadata |-> extra]
       ELSE item

----------------------------------------------------------------------------
(* fetch_context_items: the tasks and what each adapter can resolve to *)

\* the tasks list, in dispatch order
Tasks == <<"fetch_news_articles", "fetch_arxiv_papers", "fetch_github_releases",
           "fetch_rss_articles", "fetch_semantic_scholar_papers",
           "fetch_crossref_works", "fetch_conference_proceedings">>

TaskIds == 1..Len(Tasks)

\* what gather holds for a task: nothing yet, an exception, or the returned list
Pending      == [kind |-> "pending", items |-> <<>>]
Failure      == [kind |-> "exception", items |-> <<>>]
Returned(l)  == [kind |-> "list", items |-> l]

DupUrl == "https://example.org/dup"

Rec(provider, source, title, url, published_at) ==
    _build_context_item(provider, source, title, "", url, published_at, "", <<>>)

\* The lists each adapter may return in this model: records it can build
\* (its provider, the published_at kinds its code can pass on), kept few.
AdapterLists(i) ==
    CASE i = 1 -> { <<>>,
                    <<Rec("newsapi", "Feed", "Duplicate", DupUrl, Canonical(1))>>,
                    <<Rec("newsapi", "Feed", "Duplicate", DupUrl, NonString)>> }
      [] i = 2 -> { <<>>,
                    <<Rec("arxiv", "arXiv", "Paper", "", Canonical(2))>> }
      [] i = 3 -> { <<>>,
                    <<Rec("github", "o/r", "v1", "https://github.com/o/r", UnknownDate)>> }
      [] i = 4 -> { <<>>,
                    <<Rec("rss", "Blog", "Post", DupUrl, UnknownDate)>>,
                    <<Rec("rss", "arXiv", "Paper", None, Canonical(2)),
                      Rec("rss", "Blog", "Post", "https://blog/p", RawString)>> }
      [] i = 5 -> { <<>>,
                    <<Rec("semantic_scholar", "ICLR", "Duplicate", DupUrl, Canonical(2))>>,
                    <<Rec("semantic_scholar", "ICLR", "Duplicate", DupUrl, Canonical(1))>> }
      [] i = 6 -> { <<>>,
                    <<Rec("crossref", "Crossref", "Work", "https://doi.org/x", UnknownDate)>>,
                    <<Rec("crossref", "Crossref", "Work", DupUrl, UnknownDate)>> }
      [] OTHER -> { <<>>,
                    <<Rec("neurips", "NeurIPS", "Fresh", "https://nips/1", Canonical(1)),
                      Rec("icml", "ICML", "Fresh", "https://nips/1", Canonical(1))>>,
                    <<Rec("iclr", "ICLR", "Old", "https://iclr/0", Canonical(datetime_min))>> }

AdapterOutcomes(i) == {Failure} \cup {Returned(l) : l \in AdapterLists(i)}

----------------------------------------------------------------------------
(* fetch_context_items: the merge pass *)

\* lines 55-60: flatten the chunks, skipping the exceptions
RECURSIVE CollectFrom(_, _, _)
CollectFrom(ch, i, acc) ==
    IF i > Len(Tasks) THEN acc
    ELSE IF ch[i].kind = "exception"
         THEN CollectFrom(ch, i + 1, acc)
         ELSE CollectFrom(ch, i + 1, acc \o ch[i].items)

\* mutant of Collect: the loop stops at the first exception instead of skipping it
RECURSIVE CollectUntilException(_, _, _)
CollectUntilException(ch, i, acc) ==
    IF i > Len(Tasks) THEN acc
    ELSE IF ch[i].kind = "exception"
         THEN acc
         ELSE CollectUntilException(ch, i + 1, acc \o ch[i].items)

Collect_break(ch) == CollectUntilException(ch, 1, <<>>)

Collect(ch) == CollectFrom(ch, 1, <<>>)

\* mutant of DedupKey: the url alone, whatever it holds
DedupKey_url_only(item) == item.url

\* line 65
DedupKey(item) ==
    IF Truthy(item.url) THEN item.url ELSE item.title \o "::" \o item.source

\* position of key in the dict, 0 when absent
KeyPos(d, key) ==
    IF \E j \in 1..Len(d) : d[j].key = key
    THEN CHOOSE j \in 1..Len(d) : d[j].key = key
    ELSE 0

\* mutant of Replaces: the comparison is reversed, the older record wins
Replaces_older(item, existing) ==
    _parse_datetime(item.published_at) < _parse_datetime(existing.published_at)

\* mutant of Replaces: a later record also wins a tie
Replaces_on_tie(item, existing) ==
    _parse_datetime(item.published_at) >= _parse_datetime(existing.published_at)

\* line 70: a later record replaces the held one only if strictly more recent
Replaces(item, existing) ==
    _parse_datetime(item.published_at) > _parse_datetime(existing.published_at)

\* lines 63-73.  The dict keeps a key at the position of its first insertion.
RECURSIVE DedupeFrom(_, _, _)
DedupeFrom(res, i, d) ==
    IF i > Len(res) THEN [raised |-> FALSE, d |-> d]
    ELSE LET item == res[i]
             key  == DedupKey(item)
             pos  == KeyPos(d, key)
         IN IF pos = 0
            THEN DedupeFrom(res, i + 1, Append(d, [key |-> key, item |-> item]))
            ELSE IF \/ _parse_datetime(item.published_at) = TypeError
                    \/ _parse_datetime(d[pos].item.published_at) = TypeError
                 THEN [raised |-> TRUE, d |-> d]
                 ELSE IF Replaces(item, d[pos].item)
                      THEN DedupeFrom(res, i + 1,
                                      [d EXCEPT ![pos] = [key |-> key, item |-> item]])
                      ELSE DedupeFrom(res, i + 1, d)

Dedupe(res) == DedupeFrom(res, 1, <<>>)

\* mutant of Values: the key is written back into the record as its url
Values_with_key_as_url(d) == [j \in 1..Len(d) |-> [d[j].item EXCEPT !.url = d[j].key]]

\* deduped.values()
Values(d) == [j \in 1..Len(d) |-> d[j].item]

\* where sorted(..., reverse=True) puts x among already placed elements: after
\* every element whose key is >= its own (the sort is stable)
RECURSIVE InsertDesc(_, _)
InsertDesc(s, x) ==
    IF s = <<>> THEN <<x>>
    ELSE IF _parse_datetime(Head(s).published_at) >= _parse_datetime(x.published_at)
         THEN <<Head(s)>> \o InsertDesc(Tail(s), x)
         ELSE <<x>> \o s

RECURSIVE SortFrom(_, _, _)
SortFrom(vals, i, acc) ==
    IF i > Len(vals) THEN acc
    ELSE SortFrom(vals, i + 1, InsertDesc(acc, vals[i]))

\* lines 75-79; the key function is applied to every element first
SortRaises(vals) ==
    \E j \in 1..Len(vals) : _parse_datetime(vals[j].published_at) = TypeError

\* mutant of SortedByTime: the list is left in the order it was built in
SortedByTime_unsorted(vals) == vals

SortedByTime(vals) == SortFrom(vals, 1, <<>>)

NoReturn      == [kind |-> "none", items |-> <<>>, exc |-> ""]
ReturnList(l) == [kind |-> "list", items |-> l, exc |-> ""]
Raise(e)      == [kind |-> "raise", items |-> <<>>, exc |-> e]

----------------------------------------------------------------------------
(* fetch_context_items: the actions *)

AllResolved == \A i \in TaskIds : status[i] \in {"returned", "raised"}

\* mutant of GatherReady: gather yields as soon as one task is done
GatherReady_first_completed == \E i \in TaskIds : status[i] \in {"returned", "raised"}

\* what gather waits for before it yields the chunks
GatherReady == AllResolved

\* mutant of CanStart: a task that failed or came back empty is run again
CanStart_retry(i) ==
    \/ status[i] = "created"
    \/ status[i] = "raised"
    \/ status[i] = "returned" /\ chunks[i].items = <<>>

\* whether the event loop may run task i's coroutine from its start
CanStart(i) == status[i] = "created"

InitAgg ==
    /\ pc = "dispatch"
    /\ limit \in (0 - 1)..MaxLimit
    /\ status = [i \in TaskIds |-> "created"]
    /\ calls = [i \in TaskIds |-> 0]
    /\ chunks = [i \in TaskIds |-> Pending]
    /\ results = <<>>
    /\ deduped = <<>>
    /\ sorted_items = <<>>
    /\ ret = NoReturn

IdleFunctions ==
    /\ fpc = "off"
    /\ fargs = [fn |-> ""]
    /\ fres = [fn |-> ""]

IdleAgg ==
    /\ pc = "off"
    /\ limit = 0
    /\ status = [i \in TaskIds |-> "created"]
    /\ calls = [i \in TaskIds |-> 0]
    /\ chunks = [i \in TaskIds |-> Pending]
    /\ results = <<>>
    /\ deduped = <<>>
    /\ sorted_items = <<>>
    /\ ret = NoReturn

\* lines 43-53: the coroutines are created and handed to gather, which
\* schedules each of them as a task
Dispatch ==
    /\ pc = "dispatch"
    /\ pc' = "gather"
    /\ UNCHANGED <<limit, status, calls, chunks, results, deduped, sorted_items, ret>>
    /\ UNCHANGED <<adVars, fnVars>>

\* the event loop runs a task up to its first suspension
StartTask(i) ==
    /\ pc = "gather"
    /\ CanStart(i)
    /\ \A j \in 1..(i - 1) : status[j] # "created"
    /\ status' = [status EXCEPT ![i] = "running"]
    /\ calls' = [calls EXCEPT ![i] = @ + 1]
    /\ UNCHANGED <<pc, limit, chunks, results, deduped, sorted_items, ret>>
    /\ UNCHANGED <<adVars, fnVars>>

\* mutant of Slot: the outcomes are stored in the order the tasks finish
Slot_in_completion_order(i) ==
    CHOOSE j \in TaskIds : chunks[j] = Pending /\ \A k \in 1..(j - 1) : chunks[k] # Pending

\* line 53: gather stores the outcome of a task at the position the task
\* has in its argument list, whenever the task finishes
Slot(i) == i

\* a task finishes: the adapter returns a list or raises
ResolveTask(i) ==
    /\ pc = "gather"
    /\ status[i] = "running"
    /\ \E o \in AdapterOutcomes(i) :
          /\ status' = [status EXCEPT ![i] =
                           IF o.kind = "exception" THEN "raised" ELSE "returned"]
          /\ chunks' = [chunks EXCEPT ![Slot(i)] = o]
    /\ UNCHANGED <<pc, limit, calls, results, deduped, sorted_items, ret>>
    /\ UNCHANGED <<adVars, fnVars>>

\* line 53: gather(..., return_exceptions=True) yields once every task is done
GatherReturns ==
    /\ pc = "gather"
    /\ GatherReady
    /\ pc' = "collect"
    /\ UNCHANGED <<limit, status, calls, chunks, results, deduped, sorted_items, ret>>
    /\ UNCHANGED <<adVars, fnVars>>

\* lines 55-60
CollectStep ==
    /\ pc = "collect"
    /\ results' = Collect(chunks)
    /\ pc' = "dedupe"
    /\ UNCHANGED <<limit, status, calls, chunks, deduped, sorted_items, ret>>
    /\ UNCHANGED <<adVars, fnVars>>

\* lines 62-73
DedupeStep ==
    /\ pc = "dedupe"
    /\ LET r == Dedupe(results)
       IN IF r.raised
          THEN /\ pc' = "done"
               /\ ret' = Raise("TypeError")
               /\ UNCHANGED deduped
          ELSE /\ pc' = "sort"
               /\ deduped' = r.d
               /\ UNCHANGED ret
    /\ UNCHANGED <<limit, status, calls, chunks, results, sorted_items>>
    /\ UNCHANGED <<adVars, fnVars>>

\* lines 75-79
SortStep ==
    /\ pc = "sort"
    /\ IF SortRaises(Values(deduped))
       THEN /\ pc' = "done"
            /\ ret' = Raise("TypeError")
            /\ UNCHANGED sorted_items
       ELSE /\ pc' = "truncate"
            /\ sorted_items' = SortedByTime(Values(deduped))
            /\ UNCHANGED ret
    /\ UNCHANGED <<limit, status, calls, chunks, results, deduped>>
    /\ UNCHANGED <<adVars, fnVars>>

\* line 81
TruncateStep ==
    /\ pc = "truncate"
    /\ ret' = ReturnList(SliceTo(sorted_items, limit))
    /\ pc' = "done"
    /\ UNCHANGED <<limit, status, calls, chunks, results, deduped, sorted_items>>
    /\ UNCHANGED <<adVars, fnVars>>

Next ==
    \/ Dispatch
    \/ \E i \in TaskIds : StartTask(i)
    \/ \E i \in TaskIds : ResolveTask(i)
    \/ GatherReturns
    \/ CollectStep
    \/ DedupeStep
    \/ SortStep
    \/ TruncateStep

\* no request parameters followed
NoParams == [size |-> 0, from_pub_date |-> NoDatetime]

IdleAdapters ==
    /\ apc = "off"
    /\ adapter = ""
    /\ query = ""
    /\ maxn = 0
    /\ params = NoParams
    /\ http = <<>>
    /\ cursor = 0
    /\ items = <<>>
    /\ aret = NoReturn

Init == InitAgg /\ IdleAdapters /\ IdleFunctions

Spec == Init /\ [][Next]_vars

----------------------------------------------------------------------------
(* The adapters: HTTP exchanges *)

NoBody == [json |-> "none"]

\* client.get raised (connection error, timeout)
HttpException(e) == [kind |-> "exception", error |-> e, status |-> 0, body |-> NoBody]
\* client.get returned a response
HttpResponse(st, b) == [kind |-> "response", error |-> "", status |-> st, body |-> b]

TransportErrors == {"ConnectError", "ReadTimeout"}
Statuses == {200, 404, 500}

\* response.raise_for_status() raises
StatusError(ex) == ex.kind = "response" /\ (ex.status < 200 \/ ex.status > 299)

\* the request failed: a connection error, a timeout or a non-success status
RequestFailed(ex) == ex.kind = "exception" \/ StatusError(ex)

\* the try block of a JSON adapter raises: client.get, raise_for_status or
\* response.json()
JsonTryRaises(ex) == RequestFailed(ex) \/ ex.body.json = "malformed"

Exchanges(bodies) ==
    {HttpException(e) : e \in TransportErrors}
      \cup {HttpResponse(st, b) : st \in Statuses, b \in bodies}

\* config.py line 30
NEWSAPI_KEY == "43418ecd27254838878dab5887155323"

Queries == {"", "ai", "AI"}

----------------------------------------------------------------------------
(* fetch_news_articles *)

\* an article of the payload: a JSON object, or something that is not one
Article(published, title, url, author) ==
    [shape |-> "object", publishedAt |-> published, title |-> title,
     description |-> None, url |-> url, content |-> None, author |-> author,
     source |-> [isdict |-> TRUE, name |-> None]]
ScalarEntry == [shape |-> "scalar"]

NewsArticleLists ==
    { <<>>,
      <<Article(Iso(2, 0), "Duplicate", DupUrl, "Ann")>>,
      <<Article(Iso(2, 0), "Duplicate", DupUrl, None), Article(Number, None, None, None)>>,
      <<Article(Iso(2, 0), "Duplicate", DupUrl, None), ScalarEntry>> }

\* bodies NewsAPI may send: not JSON, JSON that is no object, an object
NewsBodies ==
    {[json |-> "malformed"], [json |-> "array"]}
      \cup {[json |-> "object", articles |-> a] : a \in NewsArticleLists}

\* _safe_get(article, "source", "name")
_safe_get(article) ==
    IF article.source.isdict THEN article.source.name ELSE None

\* lines 116-129, one article
NewsItem(article) ==
    _build_context_item("newsapi",
                        Or(_safe_get(article), "News article"),
                        article.title,
                        article.description,
                        article.url,
                        _format_timestamp(article.publishedAt),
                        article.content,
                        << <<"author", article.author>> >>)

\* lines 114-131: payload.get and article.get raise AttributeError on a
\* value that is no dict
NewsParse(payload) ==
    IF payload.json # "object" THEN Raise("AttributeError")
    ELSE IF \E j \in 1..Len(payload.articles) : payload.articles[j].shape # "object"
         THEN Raise("AttributeError")
         ELSE ReturnList([j \in 1..Len(payload.articles) |-> NewsItem(payload.articles[j])])

\* lines 90-91: the adapter returns [] before any request
NewsCall ==
    /\ adapter = "fetch_news_articles"
    /\ apc = "start"
    /\ IF ~Truthy(NEWSAPI_KEY)
       THEN apc' = "done" /\ aret' = ReturnList(<<>>)
       ELSE apc' = "request" /\ UNCHANGED aret
    /\ UNCHANGED <<adapter, query, maxn, params, http, cursor, items>>
    /\ UNCHANGED <<aggVars, fnVars>>

\* lines 101-131: the response arrives
NewsResume ==
    /\ adapter = "fetch_news_articles"
    /\ apc = "request"
    /\ \E ex \in Exchanges(NewsBodies) :
          /\ http' = <<ex>>
          /\ aret' = IF JsonTryRaises(ex) THEN ReturnList(<<>>) ELSE NewsParse(ex.body)
    /\ apc' = "done"
    /\ UNCHANGED <<adapter, query, maxn, params, cursor, items>>
    /\ UNCHANGED <<aggVars, fnVars>>

----------------------------------------------------------------------------
(* fetch_arxiv_papers *)

ArxivEntry(title, updated, published, link, authors) ==
    [title |-> title, summary |-> "", updated |-> updated, published |-> published,
     link |-> link, authors |-> authors]

ArxivEntryLists ==
    { <<>>,
      <<ArxivEntry("Paper", Iso(2, 0), Iso(1, 0), "https://arxiv.org/abs/1", <<"Ann">>)>>,
      <<ArxivEntry("Paper", NoRaw, Iso(1, 0), "", <<>>),
        ArxivEntry("", Garbage, NoRaw, "https://arxiv.org/abs/2", <<>>)>> }

\* response.text: XML that does not parse, or a feed with its entries
ArxivBodies ==
    {[json |-> "none", wellformed |-> FALSE, entries |-> <<>>]}
      \cup {[json |-> "none", wellformed |-> TRUE, entries |-> e] : e \in ArxivEntryLists}

\* a or b on raw timestamps (findtext yields "" for a missing element)
OrRaw(a, b) == IF a.fmt # "none" THEN a ELSE b

\* lines 386-415, one entry
ArxivItem(entry) ==
    _build_context_item("arxiv", "arXiv", entry.title, entry.summary, entry.link,
                        _format_timestamp(OrRaw(entry.updated, entry.published)),
                        entry.summary,
                        << <<"authors", entry.authors>> >>)

\* _parse_arxiv_feed: ET.fromstring raises ParseError on malformed XML
_parse_arxiv_feed(feed_xml) ==
    IF ~feed_xml.wellformed THEN Raise("ParseError")
    ELSE ReturnList([j \in 1..Len(feed_xml.entries) |-> ArxivItem(feed_xml.entries[j])])

\* lines 139-150
ArxivCall ==
    /\ adapter = "fetch_arxiv_papers"
    /\ apc = "start"
    /\ IF ~Truthy(query)
       THEN apc' = "done" /\ aret' = ReturnList(<<>>)
       ELSE apc' = "request" /\ UNCHANGED aret
    /\ UNCHANGED <<adapter, query, maxn, params, http, cursor, items>>
    /\ UNCHANGED <<aggVars, fnVars>>

\* lines 152-161: only the request is inside the try
ArxivResume ==
    /\ adapter = "fetch_arxiv_papers"
    /\ apc = "request"
    /\ \E ex \in Exchanges(ArxivBodies) :
          /\ http' = <<ex>>
          /\ aret' = IF RequestFailed(ex) THEN ReturnList(<<>>)
                     ELSE _parse_arxiv_feed(ex.body)
    /\ apc' = "done"
    /\ UNCHANGED <<adapter, query, maxn, params, cursor, items>>
    /\ UNCHANGED <<aggVars, fnVars>>

----------------------------------------------------------------------------
(* fetch_semantic_scholar_papers *)

Paper(publicationDate, year, title, url, authors) ==
    [shape |-> "object", publicationDate |-> publicationDate, year |-> year,
     title |-> title, abstract |-> None, url |-> url, venue |-> None,
     authors |-> authors]

S2PaperLists ==
    { <<>>,
      <<Paper(DateOnly(Today - 5), NoRaw, "Recent", "https://s2/1", <<"Ann">>),
        Paper(DateOnly(Today - max_age_days - 1), NoRaw, "Old", "https://s2/2", <<>>),
        Paper(NoRaw, NoRaw, "Undated", None, <<>>)>>,
      <<Paper(NoRaw, YearInt(Today - 9), "ByYear", "https://s2/3", <<>>), ScalarEntry>> }

S2Bodies ==
    {[json |-> "malformed"], [json |-> "array"]}
      \cup {[json |-> "object", data |-> d] : d \in S2PaperLists}

\* lines 426-451, one paper that passed the age filter
S2Item(paper) ==
    LET published_dt == _coerce_datetime(OrRaw(paper.publicationDate, paper.year))
    IN _build_context_item("semantic_scholar",
                           Or(paper.venue, "Semantic Scholar"),
                           paper.title, paper.abstract, paper.url,
                           _format_timestamp(IsoformatOrNone(published_dt)),
                           paper.abstract,
                           IF paper.authors = <<>> THEN <<>>
                           ELSE << <<"authors", paper.authors>> >>)

S2TooOld(paper, days) ==
    TooOld(_coerce_datetime(OrRaw(paper.publicationDate, paper.year)), days)

\* lines 423-455: the loop; results is what it holds before paper i
RECURSIVE S2Loop(_, _, _, _, _)
S2Loop(data, i, acc, max_results, days) ==
    IF i > Len(data) THEN ReturnList(acc)
    ELSE IF data[i].shape # "object" THEN Raise("AttributeError")
    ELSE IF S2TooOld(data[i], days) THEN S2Loop(data, i + 1, acc, max_results, days)
    ELSE LET acc2 == Append(acc, S2Item(data[i]))
         IN IF Len(acc2) >= max_results THEN ReturnList(acc2)
            ELSE S2Loop(data, i + 1, acc2, max_results, days)

\* _parse_semantic_scholar_payload
_parse_semantic_scholar_payload(payload, max_results, days) ==
    IF payload.json # "object" THEN Raise("AttributeError")
    ELSE S2Loop(payload.data, 1, <<>>, max_results, days)

\* lines 173-180: "limit": max_results * 2
S2Params(max_results) == [size |-> max_results * 2, from_pub_date |-> NoDatetime]

\* lines 170-180
S2Call ==
    /\ adapter = "fetch_semantic_scholar_papers"
    /\ apc = "start"
    /\ IF ~Truthy(query)
       THEN apc' = "done" /\ aret' = ReturnList(<<>>) /\ UNCHANGED params
       ELSE apc' = "request" /\ params' = S2Params(maxn) /\ UNCHANGED aret
    /\ UNCHANGED <<adapter, query, maxn, http, cursor, items>>
    /\ UNCHANGED <<aggVars, fnVars>>

\* lines 182-194
S2Resume ==
    /\ adapter = "fetch_semantic_scholar_papers"
    /\ apc = "request"
    /\ \E ex \in Exchanges(S2Bodies) :
          /\ http' = <<ex>>
          /\ aret' = IF JsonTryRaises(ex) THEN ReturnList(<<>>)
                     ELSE _parse_semantic_scholar_payload(ex.body, maxn, max_age_days)
    /\ apc' = "done"
    /\ UNCHANGED <<adapter, query, maxn, params, cursor, items>>
    /\ UNCHANGED <<aggVars, fnVars>>

----------------------------------------------------------------------------
(* fetch_crossref_works *)

\* date is the instant of the item's first usable date-parts, or NoDatetime
Work(date, title, url, doi) ==
    [shape |-> "object", date |-> date, title |-> title, abstract |-> None,
     containerTitle |-> None, URL |-> url, DOI |-> doi]

CrossrefItemLists ==
    { <<>>,
      <<Work(Midnight(Today), "Today", "https://doi.org/1", "10.1/1"),
        Work(Midnight(Today - max_age_days - 1), "Old", "https://doi.org/2", "10.1/2"),
        Work(NoDatetime, None, None, None)>>,
      <<Work(Midnight(Today - max_age_days), "OnCutoffDay", "https://doi.org/4", "10.1/4"),
        Work(Midnight(Today - max_age_days + 1), "DayAfter", "https://doi.org/5", None)>>,
      <<Work(Midnight(Today - 3), "Recent", "https://doi.org/3", None), ScalarEntry>> }

\* message is an object with items, or null
CrossrefBodies ==
    {[json |-> "malformed"], [json |-> "array"], [json |-> "object", message |-> "null", items |-> <<>>]}
      \cup {[json |-> "object", message |-> "object", items |-> w] : w \in CrossrefItemLists}

\* _extract_crossref_date
_extract_crossref_date(item) == item.date

\* lines 465-488, one item that passed the age filter
CrossrefItem(item) ==
    LET published_dt == _extract_crossref_date(item)
        summary == IF Truthy(item.abstract) THEN _strip_html(item.abstract) ELSE ""
    IN _build_context_item("crossref",
                           Or(item.containerTitle, "Crossref"),
                           item.title, summary, item.URL,
                           _format_timestamp(IsoformatOrNone(published_dt)),
                           summary,
                           << <<"doi", item.DOI>> >>)

RECURSIVE CrossrefLoop(_, _, _, _, _)
CrossrefLoop(its, i, acc, max_results, days) ==
    IF i > Len(its) THEN ReturnList(acc)
    ELSE IF its[i].shape # "object" THEN Raise("AttributeError")
    ELSE IF TooOld(_extract_crossref_date(its[i]), days)
         THEN CrossrefLoop(its, i + 1, acc, max_results, days)
    ELSE LET acc2 == Append(acc, CrossrefItem(its[i]))
         IN IF Len(acc2) >= max_results THEN ReturnList(acc2)
            ELSE CrossrefLoop(its, i + 1, acc2, max_results, days)

\* _parse_crossref_payload: payload.get("message", {}).get("items")
_parse_crossref_payload(payload, max_results, days) ==
    IF payload.json # "object" THEN Raise("AttributeError")
    ELSE IF payload.message # "object" THEN Raise("AttributeError")
    ELSE CrossrefLoop(payload.items, 1, <<>>, max_results, days)

\* datetime.date(): the day an instant falls on
DateOf(t) == t \div TicksPerDay

\* lines 206-213: "filter": from-pub-date:<cutoff date>, "rows": max_results * 2
CrossrefParams(max_results, days) ==
    [size |-> max_results * 2, from_pub_date |-> DateOf(AgeCutoff(days))]

\* lines 203-213
CrossrefCall ==
    /\ adapter = "fetch_crossref_works"
    /\ apc = "start"
    /\ IF ~Truthy(query)
       THEN apc' = "done" /\ aret' = ReturnList(<<>>) /\ UNCHANGED params
       ELSE /\ apc' = "request"
            /\ params' = CrossrefParams(maxn, max_age_days)
            /\ UNCHANGED aret
    /\ UNCHANGED <<adapter, query, maxn, http, cursor, items>>
    /\ UNCHANGED <<aggVars, fnVars>>

\* lines 215-224
CrossrefResume ==
    /\ adapter = "fetch_crossref_works"
    /\ apc = "request"
    /\ \E ex \in Exchanges(CrossrefBodies) :
          /\ http' = <<ex>>
          /\ aret' = IF JsonTryRaises(ex) THEN ReturnList(<<>>)
                     ELSE _parse_crossref_payload(ex.body, maxn, max_age_days)
    /\ apc' = "done"
    /\ UNCHANGED <<adapter, query, maxn, params, cursor, items>>
    /\ UNCHANGED <<aggVars, fnVars>>

----------------------------------------------------------------------------
(* fetch_github_releases *)

\* a repository of the search result; shape "bare" lacks owner or name
Repo(owner, name) ==
    [shape |-> "object", owner |-> owner, name |-> name,
     full_name |-> owner \o "/" \o name, description |-> None,
     html_url |-> "https://github.com/" \o owner \o "/" \o name]
BareRepo == [shape |-> "bare"]

GithubRepoLists ==
    { <<>>,
      <<Repo("o", "a")>>,
      <<Repo("o", "a"), Repo("o", "b"), Repo("o", "c")>>,
      <<Repo("o", "a"), BareRepo>> }

GithubSearchBodies ==
    {[json |-> "malformed"], [json |-> "array"]}
      \cup {[json |-> "object", items |-> r] : r \in GithubRepoLists}

Release(name, published, created, tag) ==
    [json |-> "object", name |-> name, body |-> None, html_url |-> None,
     published_at |-> published, created_at |-> created, tag_name |-> tag]

GithubReleaseBodies ==
    {[json |-> "malformed"],
     Release("v1", Iso(2, 0), Iso(1, 0), "v1"),
     Release(None, NoRaw, Number, None)}

\* lines 314-329, one release
GithubItem(repo, release) ==
    _build_context_item("github",
                        repo.owner \o "/" \o repo.name,
                        Or(release.name, repo.full_name),
                        Or(release.body, repo.description),
                        Or(release.html_url, repo.html_url),
                        _format_timestamp(OrRaw(release.published_at, release.created_at)),
                        release.body,
                        << <<"tag_name", release.tag_name>> >>)

\* the repositories the loop of line 301 runs over
GithubRepos == SliceTo(http[1].body.items, maxn)

\* mutant of GithubEnterLoop: a repository without owner or name ends the
\* loop and the releases collected so far are returned
GithubEnterLoop_keeps_collected(k, releases) ==
    IF k > Len(GithubRepos) \/ GithubRepos[k].shape # "object"
    THEN /\ apc' = "done"
         /\ aret' = ReturnList(releases)
         /\ UNCHANGED cursor
    ELSE /\ apc' = "lookup"
         /\ cursor' = k
         /\ UNCHANGED aret

\* lines 301-304 for the repository at position k: leave the loop (return
\* the releases), raise KeyError into the outer handler (return []), or
\* await the release lookup
GithubEnterLoop(k, releases) ==
    IF k > Len(GithubRepos)
    THEN /\ apc' = "done"
         /\ aret' = ReturnList(releases)
         /\ UNCHANGED cursor
    ELSE IF GithubRepos[k].shape # "object"
    THEN /\ apc' = "done"
         /\ aret' = ReturnList(<<>>)
         /\ UNCHANGED cursor
    ELSE /\ apc' = "lookup"
         /\ cursor' = k
         /\ UNCHANGED aret

\* lines 273-288
GithubCall ==
    /\ adapter = "fetch_github_releases"
    /\ apc = "start"
    /\ IF ~Truthy(query)
       THEN apc' = "done" /\ aret' = ReturnList(<<>>)
       ELSE apc' = "request" /\ UNCHANGED aret
    /\ UNCHANGED <<adapter, query, maxn, params, http, cursor, items>>
    /\ UNCHANGED <<aggVars, fnVars>>

\* lines 290-304: the search response arrives
GithubSearchResume ==
    /\ adapter = "fetch_github_releases"
    /\ apc = "request"
    /\ \E ex \in Exchanges(GithubSearchBodies) :
          /\ http' = <<ex>>
          /\ IF JsonTryRaises(ex) \/ ex.body.json # "object"
             THEN /\ apc' = "done"
                  /\ aret' = ReturnList(<<>>)
                  /\ UNCHANGED cursor
             ELSE LET repos == SliceTo(ex.body.items, maxn)
                  IN IF repos = <<>>
                     THEN apc' = "done" /\ aret' = ReturnList(<<>>) /\ UNCHANGED cursor
                     ELSE IF repos[1].shape # "object"
                     THEN apc' = "done" /\ aret' = ReturnList(<<>>) /\ UNCHANGED cursor
                     ELSE apc' = "lookup" /\ cursor' = 1 /\ UNCHANGED aret
    /\ UNCHANGED <<adapter, query, maxn, params, items>>
    /\ UNCHANGED <<aggVars, fnVars>>

\* mutant of ReleaseSkipped: only an exception of client.get skips the
\* repository, the status of the response is not looked at
ReleaseSkipped_transport_only(ex) == ex.kind = "exception"

\* the release lookup is skipped: client.get raised, a 404, or
\* raise_for_status raised (lines 305-312)
ReleaseSkipped(ex) == RequestFailed(ex)

\* lines 305-329 and back to 301: the release response of repository cursor
GithubReleaseResume ==
    /\ adapter = "fetch_github_releases"
    /\ apc = "lookup"
    /\ \E ex \in Exchanges(GithubReleaseBodies) :
          /\ http' = Append(http, ex)
          /\ IF ReleaseSkipped(ex)
             THEN /\ UNCHANGED items
                  /\ GithubEnterLoop(cursor + 1, items)
             ELSE IF ex.body.json # "object"
             THEN /\ apc' = "done"
                  /\ aret' = ReturnList(<<>>)
                  /\ UNCHANGED <<cursor, items>>
             ELSE LET releases == Append(items, GithubItem(GithubRepos[cursor], ex.body))
                  IN /\ items' = releases
                     /\ GithubEnterLoop(cursor + 1, releases)
    /\ UNCHANGED <<adapter, query, maxn, params>>
    /\ UNCHANGED <<aggVars, fnVars>>

----------------------------------------------------------------------------
(* Feeds: what feedparser.parse makes of a response body *)

\* config.py lines 41-45
TECH_RSS_FEEDS == <<"https://openai.com/blog/rss/",
                    "https://deepmind.google/discover/rss.xml",
                    "https://huggingface.co/blog/feed">>

\* lines 33-37
PROCEEDINGS_FEEDS ==
    <<[provider |-> "neurips", url |-> "https://papers.nips.cc/paper_files/paper/2024/rss"],
      [provider |-> "iclr", url |-> "https://iclr.cc/virtual/2025/overview/rss"],
      [provider |-> "icml", url |-> "https://proceedings.mlr.press/rss.xml"]>>

\* an entry of a parsed feed (published_parsed and updated_parsed are
\* derived by feedparser from published and updated, which come first)
Entry(title, summary, link, published) ==
    [title |-> title, summary |-> summary, content |-> None, link |-> link,
     published |-> published, updated |-> NoRaw]

\* the result of feedparser.parse: bozo and bozo_exception, the feed title,
\* the entries
Parsed(bozo, title, entries) ==
    [json |-> "none", bozo |-> bozo, bozo_exception |-> bozo, title |-> title,
     entries |-> entries]

\* a result with bozo set and no bozo_exception (getattr gives None)
ParsedWithoutException(title, entries) ==
    [Parsed(TRUE, title, entries) EXCEPT !.bozo_exception = FALSE]

\* mutant of ParseRaises: every feed reported malformed is refused
ParseRaises_on_any_bozo(parsed) == parsed.bozo

\* the parse functions raise ValueError: bozo, with an exception, no entries
ParseRaises(parsed) ==
    parsed.bozo /\ parsed.bozo_exception /\ parsed.entries = <<>>

\* bodies of feed url: nothing feedparser can read (an HTML error page, a
\* truncated document), a feed cut short after its first entry, clean feeds
FeedBodies(url) ==
    { Parsed(TRUE, None, <<>>),
      Parsed(TRUE, None, <<Entry("AI cut", None, url \o "#0", Garbage)>>),
      Parsed(FALSE, "Blog", <<Entry("Go", "<p>Fresh</p>", url \o "#1", Rfc822(Midnight(Today - 30))),
                              Entry("AI", None, url \o "#2", Rfc822(Midnight(Today - 1)))>>),
      Parsed(FALSE, None, <<Entry(None, "ai", url \o "#3", Rfc822(Midnight(Today - max_age_days - 9)))>>) }

FeedStatuses == {200, 500}

FeedExchanges(url) ==
    {HttpException(e) : e \in TransportErrors}
      \cup {HttpResponse(st, b) : st \in FeedStatuses, b \in FeedBodies(url)}

\* published or updated (lines 564-569, 516-521)
EntryPublished(entry) == OrRaw(entry.published, entry.updated)

\* mutant of AfterSkippedFeed: a failing feed ends the loop over the feeds
AfterSkippedFeed_stop(k) == Len(http) + 1

\* "continue" (lines 358, 364, 246, 258): the loop goes on with the feed
\* after the skipped one
AfterSkippedFeed(k) == k + 1

----------------------------------------------------------------------------
(* fetch_rss_articles *)

\* lines 553-581, one entry
RssItem(parsed, entry) ==
    LET summary == Or(Or(entry.summary, entry.content), "")
    IN _build_context_item("rss",
                           Or(parsed.title, "RSS Feed"),
                           Or(entry.title, "Untitled"),
                           _strip_html(summary),
                           entry.link,
                           _format_timestamp(EntryPublished(entry)),
                           _strip_html(summary),
                           <<>>)

\* _parse_rss_feed, for a feed it does not raise on
_parse_rss_feed(parsed) ==
    [j \in 1..Len(parsed.entries) |-> RssItem(parsed, parsed.entries[j])]

\* the characters of the texts of this model
Chars(text) ==
    CASE text = ""         -> <<>>
      [] text = "ai"       -> <<"a", "i">>
      [] text = "AI"       -> <<"A", "I">>
      [] text = "Go"       -> <<"G", "o">>
      [] text = "AI cut"   -> <<"A", "I", " ", "c", "u", "t">>
      [] text = "Fresh"    -> <<"F", "r", "e", "s", "h">>
      [] text = "Untitled" -> <<"U", "n", "t", "i", "t", "l", "e", "d">>
      [] OTHER             -> <<"?">>

\* str.lower, per character
LowerChar(c) ==
    CASE c = "A" -> "a" [] c = "I" -> "i" [] c = "G" -> "g"
      [] c = "F" -> "f" [] c = "U" -> "u" [] OTHER -> c

Lower(chars) == [j \in 1..Len(chars) |-> LowerChar(chars[j])]

\* needle in hay
Contains(needle, hay) ==
    \E k \in 0..(Len(hay) - Len(needle)) : SubSeq(hay, k + 1, k + Len(needle)) = needle

\* lines 367-368: the query is in the lower-cased "title summary"
Matches(item, q) ==
    Contains(Lower(Chars(q)),
             Lower(Chars(item.title) \o <<" ">> \o Chars(item.summary)))

\* lines 366-372: the inner loop over the items of one feed
RECURSIVE ScanItems(_, _, _, _, _)
ScanItems(its, j, matched, q, max_articles) ==
    IF j > Len(its) THEN matched
    ELSE IF ~Matches(its[j], q) THEN ScanItems(its, j + 1, matched, q, max_articles)
    ELSE LET m2 == Append(matched, its[j])
         IN IF Len(m2) >= max_articles THEN m2
            ELSE ScanItems(its, j + 1, m2, q, max_articles)

\* lines 356-364: the feed is skipped (its fetch raised, or its parse did)
RssFeedSkipped(ex) == ex.kind = "exception" \/ ParseRaises(ex.body)

\* lines 343-344
RssCall ==
    /\ adapter = "fetch_rss_articles"
    /\ apc = "start"
    /\ IF TECH_RSS_FEEDS = <<>> \/ ~Truthy(query)
       THEN apc' = "done" /\ aret' = ReturnList(<<>>)
       ELSE apc' = "gather" /\ UNCHANGED aret
    /\ UNCHANGED <<adapter, query, maxn, params, http, cursor, items>>
    /\ UNCHANGED <<aggVars, fnVars>>

\* lines 346-353: the inner gather yields the responses, in feed order
RssGather ==
    /\ adapter = "fetch_rss_articles"
    /\ apc = "gather"
    /\ \E resp \in [1..Len(TECH_RSS_FEEDS) -> UNION {FeedExchanges(TECH_RSS_FEEDS[i]) : i \in 1..Len(TECH_RSS_FEEDS)}] :
          /\ \A i \in 1..Len(TECH_RSS_FEEDS) : resp[i] \in FeedExchanges(TECH_RSS_FEEDS[i])
          /\ http' = resp
    /\ apc' = "loop"
    /\ cursor' = 1
    /\ UNCHANGED <<adapter, query, maxn, params, items, aret>>
    /\ UNCHANGED <<aggVars, fnVars>>

\* lines 355-375: one turn of the loop over the feeds
RssFeedStep ==
    /\ adapter = "fetch_rss_articles"
    /\ apc = "loop"
    /\ cursor <= Len(http)
    /\ IF RssFeedSkipped(http[cursor])
       THEN /\ cursor' = AfterSkippedFeed(cursor)
            /\ UNCHANGED <<apc, items, aret>>
       ELSE LET matched == ScanItems(_parse_rss_feed(http[cursor].body), 1, items,
                                     query, maxn)
            IN /\ items' = matched
               /\ IF Len(matched) >= maxn
                  THEN /\ apc' = "done"
                       /\ aret' = ReturnList(matched)
                       /\ UNCHANGED cursor
                  ELSE /\ cursor' = cursor + 1
                       /\ UNCHANGED <<apc, aret>>
    /\ UNCHANGED <<adapter, query, maxn, params, http>>
    /\ UNCHANGED <<aggVars, fnVars>>

\* line 377, after the last feed
RssReturn ==
    /\ adapter = "fetch_rss_articles"
    /\ apc = "loop"
    /\ cursor > Len(http)
    /\ apc' = "done"
    /\ aret' = ReturnList(items)
    /\ UNCHANGED <<adapter, query, maxn, params, http, cursor, items>>
    /\ UNCHANGED <<aggVars, fnVars>>

----------------------------------------------------------------------------
(* fetch_conference_proceedings *)

\* provider.upper()
Upper(provider) ==
    CASE provider = "neurips" -> "NEURIPS"
      [] provider = "iclr"    -> "ICLR"
      [] provider = "icml"    -> "ICML"
      [] OTHER                -> provider

\* lines 526-536, one entry that passed the age filter
ProceedingsItem(parsed, entry, provider) ==
    _build_context_item(provider,
                        Or(parsed.title, Upper(provider)),
                        Or(entry.title, "Untitled"),
                        _strip_html(Or(entry.summary, "")),
                        entry.link,
                        _format_timestamp(EntryPublished(entry)),
                        _strip_html(Or(entry.summary, "")),
                        <<>>)

RECURSIVE ProceedingsLoop(_, _, _, _, _)
ProceedingsLoop(parsed, j, acc, provider, days) ==
    IF j > Len(parsed.entries) THEN acc
    ELSE IF TooOld(_coerce_datetime(EntryPublished(parsed.entries[j])), days)
         THEN ProceedingsLoop(parsed, j + 1, acc, provider, days)
         ELSE ProceedingsLoop(parsed, j + 1,
                              Append(acc, ProceedingsItem(parsed, parsed.entries[j], provider)),
                              provider, days)

\* _parse_proceedings_feed, for a feed it does not raise on
_parse_proceedings_feed(parsed, provider, days) ==
    ProceedingsLoop(parsed, 1, <<>>, provider, days)

\* lines 244-258: the feed is skipped (its fetch raised, or its parse did)
ProceedingsFeedSkipped(ex) == ex.kind = "exception" \/ ParseRaises(ex.body)

\* lines 232-233
ProceedingsCall ==
    /\ adapter = "fetch_conference_proceedings"
    /\ apc = "start"
    /\ IF PROCEEDINGS_FEEDS = <<>>
       THEN apc' = "done" /\ aret' = ReturnList(<<>>)
       ELSE apc' = "gather" /\ UNCHANGED aret
    /\ UNCHANGED <<adapter, query, maxn, params, http, cursor, items>>
    /\ UNCHANGED <<aggVars, fnVars>>

\* lines 235-242
ProceedingsGather ==
    /\ adapter = "fetch_conference_proceedings"
    /\ apc = "gather"
    /\ \E resp \in [1..Len(PROCEEDINGS_FEEDS) -> UNION {FeedExchanges(PROCEEDINGS_FEEDS[i].url) : i \in 1..Len(PROCEEDINGS_FEEDS)}] :
          /\ \A i \in 1..Len(PROCEEDINGS_FEEDS) : resp[i] \in FeedExchanges(PROCEEDINGS_FEEDS[i].url)
          /\ http' = resp
    /\ apc' = "loop"
    /\ cursor' = 1
    /\ UNCHANGED <<adapter, query, maxn, params, items, aret>>
    /\ UNCHANGED <<aggVars, fnVars>>

\* lines 243-258: one turn of the loop over the feeds
ProceedingsFeedStep ==
    /\ adapter = "fetch_conference_proceedings"
    /\ apc = "loop"
    /\ cursor <= Len(http)
    /\ IF ProceedingsFeedSkipped(http[cursor])
       THEN /\ cursor' = AfterSkippedFeed(cursor)
            /\ UNCHANGED items
       ELSE /\ items' = items \o _parse_proceedings_feed(http[cursor].body,
                                                         PROCEEDINGS_FEEDS[cursor].provider,
                                                         max_age_days)
            /\ cursor' = cursor + 1
    /\ UNCHANGED <<apc, adapter, query, maxn, params, http, aret>>
    /\ UNCHANGED <<aggVars, fnVars>>

\* lines 260-265
ProceedingsReturn ==
    /\ adapter = "fetch_conference_proceedings"
    /\ apc = "loop"
    /\ cursor > Len(http)
    /\ apc' = "done"
    /\ aret' = IF SortRaises(items) THEN Raise("TypeError")
               ELSE ReturnList(SliceTo(SortedByTime(items), maxn))
    /\ UNCHANGED <<adapter, query, maxn, params, http, cursor, items>>
    /\ UNCHANGED <<aggVars, fnVars>>

----------------------------------------------------------------------------
(* One adapter call *)

Adapters == {Tasks[i] : i \in TaskIds}

InitAdapters ==
    /\ apc = "start"
    /\ adapter \in Adapters
    /\ query \in Queries
    /\ maxn \in 0..MaxN
    /\ params = NoParams
    /\ http = <<>>
    /\ cursor = 0
    /\ items = <<>>
    /\ aret = NoReturn

NextAdapters ==
    \/ NewsCall
    \/ NewsResume
    \/ ArxivCall
    \/ ArxivResume
    \/ S2Call
    \/ S2Resume
    \/ CrossrefCall
    \/ CrossrefResume
    \/ GithubCall
    \/ GithubSearchResume
    \/ GithubReleaseResume
    \/ RssCall
    \/ RssGather
    \/ RssFeedStep
    \/ RssReturn
    \/ ProceedingsCall
    \/ ProceedingsGather
    \/ ProceedingsFeedStep
    \/ ProceedingsReturn

InitOneAdapter == IdleAgg /\ InitAdapters /\ IdleFunctions

SpecAdapters == InitOneAdapter /\ [][NextAdapters]_vars

----------------------------------------------------------------------------
(* The pure helpers, applied on their own *)

\* instants of the raw timestamps range over 1..MaxTick
MaxTick == 4

\* UTC offsets of the raw timestamps, in ticks
Offsets == {0 - 1, 0, 1}

\* the raw timestamp values handed to _format_timestamp
RawTimestamps ==
    {NoRaw, Garbage, Number, UnknownLiteral}
      \cup {Iso(t, off) : t \in 1..MaxTick, off \in Offsets}
      \cup {DateOnly(d) : d \in 1..(MaxTick \div TicksPerDay)}
      \cup {Rfc822(t) : t \in 1..MaxTick}
      \cup {Rfc822Offset(t, off) : t \in 1..MaxTick, off \in Offsets}
      \cup {CanonicalRaw(t) : t \in 1..MaxTick}

\* a published_at value handed to _format_timestamp again: the same string
\* (or non-string value) as a raw timestamp
AsRaw(published_at) ==
    CASE published_at.kind = "canonical" -> CanonicalRaw(published_at.t)
      [] published_at.kind = "unknown"   -> UnknownLiteral
      [] published_at.kind = "nonstring" -> Number
      [] published_at.kind = "none"      -> NoRaw
      [] OTHER                           -> Garbage

InitTimestamps ==
    /\ fpc = "raw"
    /\ \E r1 \in RawTimestamps, r2 \in RawTimestamps :
          fargs = [fn |-> "timestamps", raw1 |-> r1, raw2 |-> r2]
    /\ fres = [fn |-> "timestamps",
               shown1 |-> NoTimestamp, shown2 |-> NoTimestamp,
               time1 |-> NoDatetime, time2 |-> NoDatetime,
               again1 |-> NoTimestamp, time_again1 |-> NoDatetime]

\* published_at = _format_timestamp(raw), for two raw timestamps
FormatTimestamps ==
    /\ fpc = "raw"
    /\ fargs.fn = "timestamps"
    /\ fpc' = "shown"
    /\ fres' = [fres EXCEPT !.shown1 = _format_timestamp(fargs.raw1),
                            !.shown2 = _format_timestamp(fargs.raw2)]
    /\ UNCHANGED fargs
    /\ UNCHANGED <<aggVars, adVars>>

\* the sort key of lines 70 and 77: _parse_datetime(published_at)
OrderTimestamps ==
    /\ fpc = "shown"
    /\ fargs.fn = "timestamps"
    /\ fpc' = "ordered"
    /\ fres' = [fres EXCEPT !.time1 = _parse_datetime(fres.shown1),
                            !.time2 = _parse_datetime(fres.shown2)]
    /\ UNCHANGED fargs
    /\ UNCHANGED <<aggVars, adVars>>

\* the display string handed to _format_timestamp once more
ReformatTimestamps ==
    /\ fpc = "ordered"
    /\ fargs.fn = "timestamps"
    /\ fpc' = "done"
    /\ LET again == _format_timestamp(AsRaw(fres.shown1))
       IN fres' = [fres EXCEPT !.again1 = again,
                               !.time_again1 = _parse_datetime(again)]
    /\ UNCHANGED fargs
    /\ UNCHANGED <<aggVars, adVars>>

\* an Optional[str] argument: None, the empty string, a text
OptionalTexts == {None, "", "text"}

\* the published_at argument: None or "", or what _format_timestamp returns
PublishedValues == {NoTimestamp, UnknownDate, Canonical(1), RawString, NonString}

\* the extra argument: None or {}, a key without value, a key with a value
Extras == { <<>>, << <<"author", None>> >>, << <<"author", "Ann">> >> }

InitBuild ==
    /\ fpc = "args"
    /\ \E source \in OptionalTexts, title \in OptionalTexts, summary \in OptionalTexts,
          url \in OptionalTexts, published_at \in PublishedValues,
          content \in OptionalTexts, extra \in Extras :
          fargs = [fn |-> "build", provider |-> "newsapi", source |-> source,
                   title |-> title, summary |-> summary, url |-> url,
                   published_at |-> published_at, content |-> content, extra |-> extra]
    /\ fres = [fn |-> "build"]

\* _build_context_item applied
BuildItem ==
    /\ fpc = "args"
    /\ fargs.fn = "build"
    /\ fpc' = "built"
    /\ fres' = [fn |-> "build",
                item |-> _build_context_item(fargs.provider, fargs.source, fargs.title,
                                             fargs.summary, fargs.url, fargs.published_at,
                                             fargs.content, fargs.extra)]
    /\ UNCHANGED fargs
    /\ UNCHANGED <<aggVars, adVars>>

\* values of the max_age_days argument
AgeLimits == {10, max_age_days, 400}

\* parsed feeds handed to _parse_proceedings_feed and _parse_rss_feed:
\* those of FeedBodies, a titled feed with a recent and a stale entry, an
\* untitled feed with entries around the cutoff and without usable date, a
\* clean feed without entries, feeds reported malformed without exception
ProceedingsFeedArgs ==
    FeedBodies("https://feed")
      \cup { Parsed(FALSE, "NeurIPS",
                    <<Entry("Recent", "<p>Fresh</p>", "https://feed#30", Rfc822(Midnight(Today - 30))),
                      Entry("Stale", None, "https://feed#old", Rfc822(Midnight(Today - 500)))>>),
             Parsed(FALSE, None,
                    <<Entry("Before", None, "https://feed#before", Rfc822(AgeCutoff(max_age_days) - 1)),
                      Entry("Undated", None, "https://feed#undated", NoRaw),
                      Entry("Unreadable", None, "https://feed#garbage", Garbage),
                      Entry("At", None, "https://feed#at", Rfc822Offset(AgeCutoff(max_age_days) + 1, 1))>>),
             Parsed(FALSE, "Empty", <<>>),
             ParsedWithoutException(None, <<>>),
             ParsedWithoutException("Odd", <<Entry("AI", "<p>Fresh</p>", "https://feed#odd", NoRaw)>>) }

InitProceedingsFeed ==
    /\ fpc = "feed"
    /\ \E parsed \in ProceedingsFeedArgs, i \in 1..Len(PROCEEDINGS_FEEDS), days \in AgeLimits :
          fargs = [fn |-> "proceedings", parsed |-> parsed,
                   provider |-> PROCEEDINGS_FEEDS[i].provider, days |-> days]
    /\ fres = [fn |-> "proceedings", out |-> NoReturn]

\* _parse_proceedings_feed applied
ParseProceedingsFeed ==
    /\ fpc = "feed"
    /\ fargs.fn = "proceedings"
    /\ fpc' = "parsed"
    /\ fres' = [fn |-> "proceedings",
                out |-> IF ParseRaises(fargs.parsed) THEN Raise("ValueError")
                        ELSE ReturnList(_parse_proceedings_feed(fargs.parsed, fargs.provider,
                                                                fargs.days))]
    /\ UNCHANGED fargs
    /\ UNCHANGED <<aggVars, adVars>>

\* the parsed feeds handed to _parse_rss_feed
InitRssFeed ==
    /\ fpc = "feed"
    /\ \E parsed \in ProceedingsFeedArgs : fargs = [fn |-> "rss", parsed |-> parsed]
    /\ fres = [fn |-> "rss", out |-> NoReturn]

\* _parse_rss_feed applied
ParseRssFeed ==
    /\ fpc = "feed"
    /\ fargs.fn = "rss"
    /\ fpc' = "parsed"
    /\ fres' = [fn |-> "rss",
                out |-> IF ParseRaises(fargs.parsed) THEN Raise("ValueError")
                        ELSE ReturnList(_parse_rss_feed(fargs.parsed))]
    /\ UNCHANGED fargs
    /\ UNCHANGED <<aggVars, adVars>>

InitFunctions ==
    \/ InitTimestamps
    \/ InitBuild
    \/ InitProceedingsFeed
    \/ InitRssFeed

NextFunctions ==
    \/ BuildItem
    \/ ParseProceedingsFeed
    \/ ParseRssFeed
    \/ FormatTimestamps
    \/ OrderTimestamps
    \/ ReformatTimestamps

InitOneFunction == IdleAgg /\ IdleAdapters /\ InitFunctions

SpecFunctions == InitOneFunction /\ [][NextFunctions]_vars

----------------------------------------------------------------------------
(* Claims about fetch_context_items, checked under Spec *)

\* the records of the adapters that did not raise, in dispatch order
RECURSIVE ReturnedRecords(_)
ReturnedRecords(i) ==
    IF i = 0 THEN <<>>
    ELSE ReturnedRecords(i - 1) \o
         (IF status[i] = "returned" THEN chunks[i].items ELSE <<>>)

\* dedupe, rank and truncate of a list of records, as one function
MergeOf(records, n) ==
    LET d == Dedupe(records)
    IN IF d.raised THEN Raise("TypeError")
       ELSE IF SortRaises(Values(d.d)) THEN Raise("TypeError")
       ELSE ReturnList(SliceTo(SortedByTime(Values(d.d)), n))

Time(item) == _parse_datetime(item.published_at)

SomeRaised == \E i \in TaskIds : status[i] = "raised"

\* C1: whatever subset of the seven adapters raises, the outcome of the call
\* is the dedupe/rank/truncate of exactly the records returned by the
\* adapters that did not raise; an adapter's exception is never the
\* outcome of the call.
C1_RaisingAdaptersContributeNothing ==
    pc = "done" =>
        /\ ret = MergeOf(ReturnedRecords(Len(Tasks)), limit)
        /\ ret.exc # "AdapterError"
        /\ \A i \in TaskIds : status[i] = "raised" => chunks[i].items = <<>>

\* C1 witness: an early and a late adapter raised, and the call returned
\* the records of their siblings
C1_Witness ==
    /\ pc = "done"
    /\ status[1] = "raised"
    /\ status[6] = "raised"
    /\ status[2] = "returned"
    /\ status[7] = "returned"
    /\ ret.kind = "list"
    /\ Len(ret.items) >= 2

\* C2: fetch_context_items never raises and always returns a list, for
\* every combination of adapter outcomes and every published_at value a
\* record can carry; with every adapter failed or empty the list is empty.
C2_NeverRaisesAlwaysList ==
    pc = "done" =>
        /\ ret.kind = "list"
        /\ (\A i \in TaskIds : chunks[i].items = <<>>) => ret.items = <<>>

\* C3: when two or more collected records share a dedup key and have
\* different normalized timestamps, the deduplicated set holds exactly one
\* record with that key, one of the collected records with the latest
\* timestamp of that key, and the output holds at most one.
C3_DedupKeepsLatest ==
    \A a, b \in 1..Len(results) :
        (/\ pc \in {"sort", "truncate", "done"}
         /\ ret.kind # "raise"
         /\ a < b
         /\ DedupKey(results[a]) = DedupKey(results[b])
         /\ Time(results[a]) # Time(results[b]))
        => LET k == DedupKey(results[a])
               held == {j \in 1..Len(deduped) : deduped[j].key = k}
               same == {c \in 1..Len(results) : DedupKey(results[c]) = k}
           IN /\ Cardinality(held) = 1
              /\ \A j \in held :
                    /\ \E c \in same : deduped[j].item = results[c]
                    /\ \A c \in same : Time(deduped[j].item) >= Time(results[c])
              /\ Cardinality({j \in 1..Len(ret.items) : DedupKey(ret.items[j]) = k}) <= 1

\* C3 witness: three records share a key; the second is older than the
\* first (it did not replace it) and the third is newer than both (it did)
C3_Witness ==
    /\ pc = "sort"
    /\ \E a, b, c \in 1..Len(results) :
          /\ a < b /\ b < c
          /\ DedupKey(results[a]) = DedupKey(results[b])
          /\ DedupKey(results[b]) = DedupKey(results[c])
          /\ Time(results[b]) < Time(results[a])
          /\ Time(results[c]) > Time(results[a])
          /\ \E j \in 1..Len(deduped) : deduped[j].item = results[c]

Dated(item) == item.published_at.kind \in {"canonical", "isoz"}

\* C4: the returned list is ordered by normalized timestamp, non-increasing,
\* and no record with "Unknown date" or an unparseable published_at stands
\* before a record with a parseable date.
C4_RankedByRecency ==
    (pc = "done" /\ ret.kind = "list") =>
        \A a, b \in 1..Len(ret.items) :
            a < b =>
               /\ Time(ret.items[a]) >= Time(ret.items[b])
               /\ ~(~Dated(ret.items[a]) /\ Dated(ret.items[b]))

\* C5: for a non-negative limit N the call returns at most N records, and
\* when at least N distinct dedup keys were collected it returns exactly the
\* first N records of the sorted deduplicated sequence.
C5_TruncatesToLimit ==
    (pc = "done" /\ ret.kind = "list" /\ limit >= 0) =>
        /\ Len(ret.items) <= limit
        /\ Cardinality({DedupKey(results[j]) : j \in 1..Len(results)}) >= limit
              => /\ Len(ret.items) = limit
                 /\ \A j \in 1..limit : ret.items[j] = sorted_items[j]

\* C5 witness: more unique records than a positive limit were available
C5_Witness ==
    /\ pc = "done"
    /\ ret.kind = "list"
    /\ limit >= 2
    /\ Len(sorted_items) > limit + 1
    /\ Len(ret.items) = limit

\* C6: while any of the seven adapters is unresolved the call has performed
\* no collect, dedupe, sort or truncate step and has not returned.
C6_FanInBarrier ==
    (\E i \in TaskIds : status[i] \in {"created", "running"} \/ chunks[i] = Pending) =>
        /\ pc \in {"dispatch", "gather"}
        /\ results = <<>>
        /\ deduped = <<>>
        /\ sorted_items = <<>>
        /\ ret = NoReturn

\* C6 witness: the merge pass has begun after adapters succeeded, returned
\* empty and failed
C6_Witness ==
    /\ pc = "collect"
    /\ \E i \in TaskIds : status[i] = "raised"
    /\ \E i \in TaskIds : status[i] = "returned" /\ chunks[i].items = <<>>
    /\ \E i \in TaskIds : status[i] = "returned" /\ chunks[i].items # <<>>

\* C7: within one call each adapter is invoked at most once, and exactly
\* once by the time gather yields; a failed or empty adapter is not retried.
C7_EachAdapterInvokedOnce ==
    \A i \in TaskIds :
        /\ calls[i] <= 1
        /\ status[i] # "created" => calls[i] = 1
        /\ pc \notin {"dispatch", "gather"} => calls[i] = 1

\* C7 witness: the call is over, one adapter failed, one returned empty
C7_Witness ==
    /\ pc = "done"
    /\ \E i \in TaskIds : status[i] = "raised" /\ calls[i] = 1
    /\ \E i \in TaskIds : status[i] = "returned" /\ chunks[i].items = <<>> /\ calls[i] = 1

----------------------------------------------------------------------------
(* Claims about the adapters, checked under SpecAdapters *)

Range(seq) == {seq[k] : k \in 1..Len(seq)}

FeedAdapters == {"fetch_rss_articles", "fetch_conference_proceedings"}

\* the records the body of feed j holds for the adapter that is running
FeedRecords(j) ==
    IF http[j].kind = "exception" \/ ParseRaises(http[j].body) THEN {}
    ELSE IF adapter = "fetch_rss_articles"
    THEN Range(_parse_rss_feed(http[j].body))
    ELSE Range(_parse_proceedings_feed(http[j].body, PROCEEDINGS_FEEDS[j].provider,
                                       max_age_days))

\* the records that request j of the running adapter can contribute: for a
\* feed, the records of its body; for a release lookup, the releases of its
\* repository; for a request the whole result depends on, every record
RecordsOfRequest(j) ==
    IF adapter \in FeedAdapters THEN FeedRecords(j)
    ELSE IF adapter = "fetch_github_releases" /\ j > 1
    THEN {r \in Range(aret.items) :
            r.source = GithubRepos[j - 1].owner \o "/" \o GithubRepos[j - 1].name}
    ELSE Range(aret.items)

\* C8: when a request of an adapter fails with a connection error, a timeout
\* or a non-success status, the adapter returns a list (it does not raise)
\* and none of the returned records comes from that request; an adapter
\* whose only request failed returns the empty list.
C8_TransportFailuresStayInside ==
    apc = "done" =>
        \A j \in 1..Len(http) :
            RequestFailed(http[j]) =>
                /\ aret.kind = "list"
                /\ Range(aret.items) \cap RecordsOfRequest(j) = {}

\* C9: after HTTP exchanges that all succeeded, whatever the bodies
\* (malformed XML or JSON, payloads of unexpected shape), the adapter
\* returns a list of records and does not raise.
C9_NoAdapterRaises ==
    (apc = "done" /\ http # <<>> /\ \A j \in 1..Len(http) : ~RequestFailed(http[j]))
        => aret.kind = "list"

\* the fetch or the parse of feed j failed
FeedFailed(j) == http[j].kind = "exception" \/ ParseRaises(http[j].body)

\* the feeds that did not fail, in the configured order
RECURSIVE SurvivingFeeds(_)
SurvivingFeeds(j) ==
    IF j = 0 THEN <<>>
    ELSE SurvivingFeeds(j - 1) \o (IF FeedFailed(j) THEN <<>> ELSE <<j>>)

\* fetch_rss_articles over the feeds idx alone: the matches, feed after
\* feed, up to the item limit
RECURSIVE RssOver(_, _, _)
RssOver(idx, k, matched) ==
    IF k > Len(idx) THEN matched
    ELSE LET m == ScanItems(_parse_rss_feed(http[idx[k]].body), 1, matched, query, maxn)
         IN IF Len(m) >= maxn THEN m ELSE RssOver(idx, k + 1, m)

\* fetch_conference_proceedings over the feeds idx alone: the recent
\* entries, newest first, up to the item limit
RECURSIVE ProceedingsRecordsOver(_, _)
ProceedingsRecordsOver(idx, k) ==
    IF k = 0 THEN <<>>
    ELSE ProceedingsRecordsOver(idx, k - 1) \o
         _parse_proceedings_feed(http[idx[k]].body, PROCEEDINGS_FEEDS[idx[k]].provider,
                                 max_age_days)

ProceedingsOver(idx) ==
    SliceTo(SortedByTime(ProceedingsRecordsOver(idx, Len(idx))), maxn)

\* C10: fetch_rss_articles and fetch_conference_proceedings return what
\* they would return if the feeds whose fetch or parse failed were not in
\* the configured list: every other feed is processed, under the adapter's
\* own filter and item limit, whichever feeds fail and in whatever position.
C10_PerFeedIsolation ==
    (apc = "done" /\ adapter \in FeedAdapters /\ http # <<>>) =>
        aret = ReturnList(IF adapter = "fetch_rss_articles"
                          THEN RssOver(SurvivingFeeds(Len(http)), 1, <<>>)
                          ELSE ProceedingsOver(SurvivingFeeds(Len(http))))

\* C10 witness: the parse of the first feed and the fetch of the second
\* failed, and a record of the third feed is returned
C10_Witness ==
    /\ apc = "done"
    /\ adapter = "fetch_rss_articles"
    /\ Len(http) = 3
    /\ http[1].kind = "response" /\ ParseRaises(http[1].body)
    /\ http[2].kind = "exception"
    /\ aret.kind = "list"
    /\ \E r \in Range(aret.items) : r \in FeedRecords(3)

----------------------------------------------------------------------------
(* Claims about the timestamp helpers, checked under SpecFunctions *)

TimestampsOrdered == fargs.fn = "timestamps" /\ fpc \in {"ordered", "done"}

\* neither parser of _format_timestamp reads the raw value
Unparseable(raw) == raw.fmt \in {"garbage", "number", "unknown", "rfc822offset"}

\* C11: for every raw timestamp value, _format_timestamp returns a string of
\* the canonical form or "Unknown date", and "Unknown date" for every input
\* it cannot parse; _parse_datetime of the result does not raise, and is
\* datetime.min for every unparseable input.
C11_NormalizationNeverRaises ==
    TimestampsOrdered =>
        /\ fres.shown1.kind \in {"canonical", "unknown"}
        /\ Unparseable(fargs.raw1) => fres.shown1 = UnknownDate
        /\ fres.time1 # TypeError
        /\ Unparseable(fargs.raw1) => fres.time1 = datetime_min

\* the supported formats: ISO-8601 with Z or a numeric offset, date-only,
\* RFC-822 style
Supported(raw) == raw.fmt \in {"iso", "rfc822", "rfc822offset"}

\* the instant a raw timestamp denotes, in UTC
Denotes(raw) == raw.t - raw.off

\* the instant the displayed published_at denotes: the displayed UTC time,
\* or, for a raw string displayed as it came, the instant of that string
Displayed(published_at, raw) ==
    IF published_at.kind = "canonical" THEN published_at.t ELSE Denotes(raw)

\* C12: of two raw timestamps in the supported formats, the one that
\* denotes the later instant has the larger
\* _parse_datetime(_format_timestamp(raw)); and the displayed published_at
\* denotes the same instant as the value used for ordering.
C12_DisplayAndOrderingAgree ==
    (TimestampsOrdered /\ Supported(fargs.raw1) /\ Supported(fargs.raw2)) =>
        /\ Denotes(fargs.raw1) > Denotes(fargs.raw2) => fres.time1 > fres.time2
        /\ Displayed(fres.shown1, fargs.raw1) = fres.time1

\* C13: for every display string s = "YYYY-MM-DD HH:MM UTC" produced by
\* _format_timestamp, _format_timestamp(s) = s and
\* _parse_datetime(_format_timestamp(s)) = _parse_datetime(s), the time the
\* string displays.
C13_CanonicalRoundTrip ==
    (fargs.fn = "timestamps" /\ fpc = "done" /\ fres.shown1.kind = "canonical") =>
        /\ fres.again1 = fres.shown1
        /\ fres.time_again1 = fres.time1
        /\ fres.time1 = fres.shown1.t

\* C13 witness: a display string produced from an ISO-8601 timestamp with an
\* offset was formatted again and parsed
C13_Witness ==
    /\ fargs.fn = "timestamps"
    /\ fpc = "done"
    /\ fargs.raw1.fmt = "iso" /\ fargs.raw1.off # 0
    /\ fres.shown1.kind = "canonical"
    /\ fres.again1 = fres.shown1
    /\ fres.time_again1 = fres.shown1.t

----------------------------------------------------------------------------
(* Claims about the record builder, checked under SpecFunctions *)

RecordKeys == {"title", "source", "summary", "content", "published_at", "url"}

\* a record has the six keys and none of the five mandatory ones is null
WellFormed(item) ==
    /\ RecordKeys \subseteq DOMAIN item
    /\ item.title # None
    /\ item.source # None
    /\ item.summary # None
    /\ item.content # None
    /\ item.published_at # NoTimestamp

\* C14: every record built by _build_context_item, whatever inputs are
\* missing (None or empty), has the keys title, source, summary, content,
\* published_at and url, the first five never null: title defaults to
\* "Untitled", source to the provider, summary to "", published_at to
\* "Unknown date", content to summary and then to "".  The same holds for
\* every record an adapter or fetch_context_items returns.
C14_RecordInvariant ==
    /\ (fargs.fn = "build" /\ fpc = "built") =>
          /\ WellFormed(fres.item)
          /\ ~Truthy(fargs.title) => fres.item.title = "Untitled"
          /\ ~Truthy(fargs.source) => fres.item.source = fargs.provider
          /\ ~Truthy(fargs.summary) => fres.item.summary = ""
          /\ fargs.published_at = NoTimestamp => fres.item.published_at = UnknownDate
          /\ ~Truthy(fargs.content) => fres.item.content = fres.item.summary
          /\ fres.item.url = fargs.url
    /\ \A k \in 1..Len(aret.items) : WellFormed(aret.items[k])
    /\ \A k \in 1..Len(ret.items) : WellFormed(ret.items[k])

\* C14 witness: a record built with every optional input missing
C14_Witness ==
    /\ fargs.fn = "build"
    /\ fpc = "built"
    /\ fargs.source = None /\ fargs.title = "" /\ fargs.summary = None
    /\ fargs.url = None /\ fargs.published_at = NoTimestamp /\ fargs.content = None
    /\ fres.item.title = "Untitled"
    /\ fres.item.published_at = UnknownDate

----------------------------------------------------------------------------
(* Claims about the records of the adapters, checked under SpecAdapters *)

\* an extra field <<key, value>> has a value: a non-empty list of authors,
\* or a text that is neither None nor empty
HasValue(field) ==
    IF field[1] = "authors" THEN field[2] # <<>> ELSE Truthy(field[2])

\* the record carries a metadata mapping
HasMetadata(item) == "metadata" \in DOMAIN item

\* the adapter's single request succeeded and its payload was turned into
\* one record per entry
OneRecordPerEntry ==
    /\ apc = "done"
    /\ aret.kind = "list"
    /\ Len(http) = 1
    /\ ~RequestFailed(http[1])

\* C15: a record carries a metadata mapping if and only if at least one
\* provider-specific extra field (author, authors, DOI, release tag) has a
\* value; a present mapping is never empty.  In particular a news article
\* without author and a preprint without authors carry no metadata.
C15_MetadataPresence ==
    /\ \A k \in 1..Len(aret.items) :
          HasMetadata(aret.items[k]) =>
              /\ aret.items[k].metadata # <<>>
              /\ \E j \in 1..Len(aret.items[k].metadata) :
                    HasValue(aret.items[k].metadata[j])
    /\ (adapter = "fetch_news_articles" /\ OneRecordPerEntry /\ http[1].body.json = "object") =>
          \A k \in 1..Len(aret.items) :
              Truthy(http[1].body.articles[k].author) => HasMetadata(aret.items[k])
    /\ (adapter = "fetch_arxiv_papers" /\ OneRecordPerEntry) =>
          \A k \in 1..Len(aret.items) :
              http[1].body.entries[k].authors # <<>> => HasMetadata(aret.items[k])

\* the publication date of a candidate, or NoDatetime without a usable one
PublicationDate(candidate) ==
    IF adapter = "fetch_crossref_works" THEN candidate.date
    ELSE LET raw == OrRaw(candidate.publicationDate, candidate.year)
         IN IF raw.fmt \in {"iso", "year"} THEN raw.t - raw.off ELSE NoDatetime

\* the candidate is dated, and older than now minus max_age_days
OlderThanCutoff(candidate) ==
    /\ PublicationDate(candidate) # NoDatetime
    /\ PublicationDate(candidate) < now - max_age_days * TicksPerDay

\* the candidates of the payload the parser was given
Candidates ==
    IF adapter = "fetch_crossref_works" THEN http[1].body.items ELSE http[1].body.data

\* the candidates that are not older than the cutoff, in payload order
RetainedCandidates == SelectSeq(Candidates, LAMBDA c : ~OlderThanCutoff(c))

RecordOf(candidate) ==
    IF adapter = "fetch_crossref_works" THEN CrossrefItem(candidate) ELSE S2Item(candidate)

\* a payload of objects reached the parser of the scholarly-graph or the
\* bibliographic adapter
ParserApplied ==
    /\ adapter \in {"fetch_semantic_scholar_papers", "fetch_crossref_works"}
    /\ apc = "done"
    /\ Len(http) = 1
    /\ ~RequestFailed(http[1])
    /\ http[1].body.json = "object"
    /\ adapter = "fetch_crossref_works" => http[1].body.message = "object"
    /\ \A k \in 1..Len(Candidates) : Candidates[k].shape = "object"

\* C16: _parse_semantic_scholar_payload and _parse_crossref_payload exclude
\* every candidate older than now minus max_age_days, never exclude a
\* candidate for having no date or an unparseable one, and return exactly
\* the first max_results retained candidates, in payload order.
C16_AgeFilterOfParsers ==
    ParserApplied =>
        aret = ReturnList(SliceTo([k \in 1..Len(RetainedCandidates) |->
                                      RecordOf(RetainedCandidates[k])], maxn))

\* C18: the scholarly-graph adapter requests 2 x max_results candidates and,
\* for every non-negative max_results and every payload, returns at most
\* max_results records.
C18_AtMostMaxResults ==
    (adapter = "fetch_semantic_scholar_papers" /\ Truthy(query)) =>
        /\ apc \in {"request", "done"} => params.size = 2 * maxn
        /\ (apc = "done" /\ aret.kind = "list") => Len(aret.items) <= maxn

\* the server keeps a work: its publication date is on or after the from date
PassesServerFilter(item) == item.date >= Midnight(params.from_pub_date)

\* the local cutoff of _parse_crossref_payload keeps a work
PassesLocalCutoff(item) == ~TooOld(_extract_crossref_date(item), max_age_days)

\* C19: the from-pub-date filter sent by fetch_crossref_works is the date of
\* now minus max_age_days, and a dated item satisfies that filter if and
\* only if the local cutoff of _parse_crossref_payload retains it.
C19_IdenticalAgeGuards ==
    (adapter = "fetch_crossref_works" /\ ParserApplied) =>
        /\ params.from_pub_date = (now - max_age_days * TicksPerDay) \div TicksPerDay
        /\ \A k \in 1..Len(Candidates) :
              Candidates[k].date # NoDatetime =>
                  (PassesServerFilter(Candidates[k]) <=> PassesLocalCutoff(Candidates[k]))

----------------------------------------------------------------------------
(* Claims about _parse_proceedings_feed, checked under SpecFunctions *)

\* the entry is dated, and older than now minus days
StaleEntry(entry, days) ==
    LET raw == OrRaw(entry.published, entry.updated)
    IN /\ Supported(raw)
       /\ Denotes(raw) < now - days * TicksPerDay

\* the entries of the feed that are not older than the cutoff, in feed order
FreshEntries == SelectSeq(fargs.parsed.entries, LAMBDA e : ~StaleEntry(e, fargs.days))

\* C17: _parse_proceedings_feed returns exactly the entries that are not
\* older than now minus max_age_days, undated entries retained, each with
\* provider equal to the provider argument and source equal to the feed's
\* title, or to the upper-cased provider when the feed has no title.
C17_ProceedingsFeedFilter ==
    (fargs.fn = "proceedings" /\ fpc = "parsed" /\ fres.out.kind = "list") =>
        /\ Len(fres.out.items) = Len(FreshEntries)
        /\ \A k \in 1..Len(fres.out.items) :
              /\ fres.out.items[k].url = FreshEntries[k].link
              /\ fres.out.items[k].provider = fargs.provider
              /\ fres.out.items[k].source =
                     (IF Truthy(fargs.parsed.title) THEN fargs.parsed.title
                      ELSE Upper(fargs.provider))

\* C17 witness: of an untitled feed, the entry before the cutoff is dropped,
\* the undated ones and the one after the cutoff are returned under the
\* upper-cased provider
C17_Witness ==
    /\ fargs.fn = "proceedings"
    /\ fpc = "parsed"
    /\ fargs.provider = "iclr"
    /\ fargs.days = max_age_days
    /\ Len(fargs.parsed.entries) = 4
    /\ fres.out.kind = "list"
    /\ Len(fres.out.items) = 3
    /\ fres.out.items[1].url = "https://feed#undated"
    /\ fres.out.items[3].source = "ICLR"

----------------------------------------------------------------------------
(* Claims about fetch_github_releases, checked under SpecAdapters *)

\* the search succeeded and named well-formed repositories, and every
\* release lookup that succeeded carried a release object
GithubLookupsRan ==
    /\ adapter = "fetch_github_releases"
    /\ apc = "done"
    /\ http # <<>>
    /\ ~RequestFailed(http[1])
    /\ http[1].body.json = "object"
    /\ \A k \in 1..Len(GithubRepos) : GithubRepos[k].shape = "object"
    /\ \A j \in 2..Len(http) : ~RequestFailed(http[j]) => http[j].body.json = "object"

\* the releases of the first k repositories whose lookup did not fail
RECURSIVE ReleasesFound(_)
ReleasesFound(k) ==
    IF k = 0 THEN <<>>
    ELSE ReleasesFound(k - 1) \o
         (IF RequestFailed(http[k + 1]) THEN <<>>
          ELSE <<GithubItem(GithubRepos[k], http[k + 1].body)>>)

\* C20: fetch_github_releases issues at most max_repos release lookups; a
\* 404, another failed status or a transport error on the lookup of one
\* repository skips only that repository: the lookups of the later
\* repositories are still made, and the adapter returns the releases of
\* all repositories whose lookup succeeded.
C20_PerRepositoryLookups ==
    /\ adapter = "fetch_github_releases" => Len(http) <= 1 + maxn
    /\ GithubLookupsRan =>
          /\ Len(http) = 1 + Len(GithubRepos)
          /\ aret = ReturnList(ReleasesFound(Len(GithubRepos)))

\* C20 witness: the first lookup answered 404, the second was made and its
\* release is what the adapter returns
C20_Witness ==
    /\ GithubLookupsRan
    /\ Len(http) = 3
    /\ http[2].kind = "response" /\ http[2].status = 404
    /\ ~RequestFailed(http[3])
    /\ aret.kind = "list"
    /\ Len(aret.items) = 1
    /\ aret.items[1].source = "o/b"

----------------------------------------------------------------------------
(* Claims about fetch_rss_articles, checked under SpecAdapters *)

\* the records of feed j that contain the query, in entry order
RssMatchesOfFeed(j) ==
    IF FeedFailed(j) THEN <<>>
    ELSE SelectSeq(_parse_rss_feed(http[j].body), LAMBDA r : Matches(r, query))

\* the matching records of the feeds 1..j, feed after feed
RECURSIVE RssMatchesUpTo(_)
RssMatchesUpTo(j) ==
    IF j = 0 THEN <<>> ELSE RssMatchesUpTo(j - 1) \o RssMatchesOfFeed(j)

\* C21: for every non-negative max_articles fetch_rss_articles returns only
\* records whose "title summary" contains the query case-insensitively, at
\* most max_articles of them, in feed-list order and entry order, and it
\* examines no feed once max_articles matches have been found.
C21_RssFilterAndLimit ==
    (apc = "done" /\ adapter = "fetch_rss_articles" /\ maxn >= 0) =>
        /\ aret.kind = "list"
        /\ \A r \in Range(aret.items) : Matches(r, query)
        /\ Len(aret.items) <= maxn
        /\ aret.items = SliceTo(RssMatchesUpTo(Len(http)), maxn)
        /\ \A j \in 1..Len(http) :
              (j <= cursor /\ ~FeedFailed(j)) => Len(RssMatchesUpTo(j - 1)) < maxn

----------------------------------------------------------------------------
(* Claims about fetch_conference_proceedings, checked under SpecAdapters *)

\* the age-filtered records of every feed that was fetched and parsed
ProceedingsMerged == ProceedingsRecordsOver(SurvivingFeeds(Len(http)), Len(SurvivingFeeds(Len(http))))

\* how many times record r stands in seq
Occurrences(seq, r) == Cardinality({k \in 1..Len(seq) : seq[k] = r})

\* C22: fetch_conference_proceedings returns records of the merged,
\* age-filtered entries of the feeds that parsed: at most max_items of them
\* (all of them when there are fewer), sorted by normalized timestamp
\* non-increasing, and no returned record is older, by ordering time, than
\* a merged record that was left out.
C22_ProceedingsNewestFirst ==
    (apc = "done" /\ adapter = "fetch_conference_proceedings" /\ http # <<>>) =>
        /\ aret.kind = "list"
        /\ Len(aret.items) = Min2(maxn, Len(ProceedingsMerged))
        /\ Len(aret.items) <= maxn
        /\ \A a, b \in 1..Len(aret.items) :
              a < b => Time(aret.items[a]) >= Time(aret.items[b])
        /\ \A r \in Range(ProceedingsMerged) :
              /\ Occurrences(aret.items, r) <= Occurrences(ProceedingsMerged, r)
              /\ Occurrences(aret.items, r) < Occurrences(ProceedingsMerged, r)
                    => \A k \in 1..Len(aret.items) : Time(aret.items[k]) >= Time(r)
        /\ Range(aret.items) \subseteq Range(ProceedingsMerged)

\* C22 witness: the first feed gave a record without a readable date, a
\* later feed gave newer ones, and the cut left records out
C22_Witness ==
    /\ apc = "done"
    /\ adapter = "fetch_conference_proceedings"
    /\ maxn = 2
    /\ Len(ProceedingsMerged) > 2
    /\ Len(aret.items) = 2
    /\ Time(ProceedingsMerged[1]) < Time(aret.items[2])
    /\ Time(aret.items[2]) < Time(aret.items[1])
    /\ \E r \in Range(ProceedingsMerged) : r \notin Range(aret.items)

----------------------------------------------------------------------------
(* Claims about the outcome of the feed parsers, checked under SpecFunctions *)

\* the parse functions of the two feed adapters
FeedParsers == {"rss", "proceedings"}

\* the entries whose records the parse function hands back: all of them for
\* _parse_rss_feed, those the age filter keeps for _parse_proceedings_feed
EntriesUsed ==
    IF fargs.fn = "rss" THEN fargs.parsed.entries ELSE FreshEntries

\* C23: _parse_rss_feed and _parse_proceedings_feed raise a parsing error
\* exactly when the parser reports a malformed feed (bozo) with an exception
\* and no entries; a feed reported malformed that has entries is processed
\* as a clean one, into the records of the entries it yielded.
C23_ParseRaisesOnlyWithoutEntries ==
    (fpc = "parsed" /\ fargs.fn \in FeedParsers) =>
        /\ fres.out.kind \in {"list", "raise"}
        /\ fres.out.kind = "raise" <=>
              (/\ fargs.parsed.bozo
               /\ fargs.parsed.bozo_exception
               /\ Len(fargs.parsed.entries) = 0)
        /\ fres.out.kind = "raise" => fres.out.exc = "ValueError"
        /\ fres.out.kind = "list" =>
              /\ Len(fres.out.items) = Len(EntriesUsed)
              /\ \A k \in 1..Len(EntriesUsed) :
                    /\ fres.out.items[k].url = EntriesUsed[k].link
                    /\ fres.out.items[k].title = Or(EntriesUsed[k].title, "Untitled")

\* C23 witness: a feed reported malformed with an exception, cut after its
\* first entry, was parsed into the record of that entry
C23_Witness ==
    /\ fpc = "parsed"
    /\ fargs.fn = "rss"
    /\ fargs.parsed.bozo
    /\ fargs.parsed.bozo_exception
    /\ Len(fargs.parsed.entries) = 1
    /\ fres.out.kind = "list"
    /\ Len(fres.out.items) = 1
    /\ fres.out.items[1].title = "AI cut"

----------------------------------------------------------------------------
(* Claims about the merge pass of fetch_context_items, checked under Spec *)

\* the positions in results of the records with dedup key k
SameKey(k) == {c \in 1..Len(results) : DedupKey(results[c]) = k}

\* the first position, in collection order, of a record of key k that no
\* record of that key is more recent than
FirstLatest(k) ==
    CHOOSE c \in SameKey(k) :
        /\ \A e \in SameKey(k) : Time(results[c]) >= Time(results[e])
        /\ \A e \in SameKey(k) : Time(results[e]) = Time(results[c]) => c <= e

\* the dedupe pass is over and did not raise
Deduplicated == pc \in {"sort", "truncate", "done"} /\ ret.kind # "raise"

\* C24: of the collected records that share a dedup key, the one kept is
\* the first, in collection order (dispatch order, then the adapter's list
\* order), of those with the latest normalized timestamp: on a tie, undated
\* records included, the earlier record stays and a later one replaces it
\* only when strictly more recent.
C24_TieKeepsFirst ==
    Deduplicated =>
        /\ results = ReturnedRecords(Len(Tasks))
        /\ \A c \in 1..Len(results) :
              \E j \in 1..Len(deduped) :
                  /\ deduped[j].key = DedupKey(results[c])
                  /\ deduped[j].item = results[FirstLatest(DedupKey(results[c]))]
        /\ \A j \in 1..Len(ret.items) :
              ret.items[j] = results[FirstLatest(DedupKey(ret.items[j]))]

\* C24 witness: two undated records of different adapters share a key, as
\* do two equally dated records of one adapter; the earlier of each pair is
\* returned, the later is not
C24_Witness ==
    /\ pc = "done"
    /\ ret.kind = "list"
    /\ \E a, b, c, d \in 1..Len(results) :
          /\ a < b /\ b < c /\ c < d
          /\ results[a] # results[b]
          /\ DedupKey(results[a]) = DedupKey(results[b])
          /\ results[a].published_at = UnknownDate
          /\ results[b].published_at = UnknownDate
          /\ results[c] # results[d]
          /\ DedupKey(results[c]) = DedupKey(results[d])
          /\ Time(results[c]) = Time(results[d])
          /\ Time(results[c]) > datetime_min
          /\ results[a] \in Range(ret.items)
          /\ results[c] \in Range(ret.items)
          /\ results[b] \notin Range(ret.items)
          /\ results[d] \notin Range(ret.items)

\* the records the adapters of this call returned
AdapterRecords ==
    UNION {Range(chunks[i].items) : i \in {t \in TaskIds : status[t] = "returned"}}

\* C25: every record of the returned list is a record some adapter returned
\* in this call, every field as the adapter set it, and no record stands in
\* the list twice.
C25_OnlySelectsRecords ==
    (pc = "done" /\ ret.kind = "list") =>
        /\ \A j \in 1..Len(ret.items) : ret.items[j] \in AdapterRecords
        /\ \A a, b \in 1..Len(ret.items) : a # b => ret.items[a] # ret.items[b]

\* C25 witness: records with and without url were returned, and a record
\* that lost its key to another adapter's was not
C25_Witness ==
    /\ pc = "done"
    /\ ret.kind = "list"
    /\ Len(ret.items) = MaxLimit
    /\ Len(deduped) = MaxLimit
    /\ \E j \in 1..Len(ret.items) : ~Truthy(ret.items[j].url)
    /\ \E j \in 1..Len(ret.items) : ret.items[j].url = DupUrl
    /\ \E r \in AdapterRecords : r \notin Range(ret.items)

\* the dedup key as a function of the record's fields: the url when it is
\* present and non-empty, "title::source" otherwise
KeyOfRecord(item) ==
    IF item.url # None /\ item.url # ""
    THEN item.url
    ELSE item.title \o "::" \o item.source

\* C26: no two records of a returned list have the same dedup key (the url,
\* or title::source without a url), the deduplicated set holds every
\* collected key once, and records with different keys are never
\* collapsed: with a limit that cuts nothing every collected key is
\* returned.
C26_DedupKeyUnique ==
    /\ Deduplicated =>
          /\ \A a, b \in 1..Len(deduped) : a # b => deduped[a].key # deduped[b].key
          /\ \A j \in 1..Len(deduped) : deduped[j].key = KeyOfRecord(deduped[j].item)
          /\ {deduped[j].key : j \in 1..Len(deduped)}
                = {KeyOfRecord(results[c]) : c \in 1..Len(results)}
    /\ (pc = "done" /\ ret.kind = "list") =>
          /\ \A a, b \in 1..Len(ret.items) :
                a # b => KeyOfRecord(ret.items[a]) # KeyOfRecord(ret.items[b])
          /\ limit >= Len(deduped) =>
                {KeyOfRecord(ret.items[j]) : j \in 1..Len(ret.items)}
                   = {KeyOfRecord(results[c]) : c \in 1..Len(results)}

\* C26 witness: two records without url shared the key title::source and
\* one of them was returned, beside records of two other keys
C26_Witness ==
    /\ pc = "done"
    /\ ret.kind = "list"
    /\ limit >= Len(deduped)
    /\ Len(ret.items) >= 3
    /\ \E a, b \in 1..Len(results) :
          /\ a < b
          /\ results[a].url = ""
          /\ results[b].url = None
          /\ KeyOfRecord(results[a]) = KeyOfRecord(results[b])
          /\ results[a] \in Range(ret.items) \/ results[b] \in Range(ret.items)

\* the list adapter i returned in this call, recognised by its records
\* wherever gather stored it; empty when the adapter raised or found nothing
ListReturnedBy(i) ==
    LET held == {j \in TaskIds : /\ chunks[j].kind = "list"
                                 /\ chunks[j].items # <<>>
                                 /\ chunks[j].items \in AdapterLists(i)}
    IN IF held = {} THEN <<>> ELSE chunks[CHOOSE j \in held : TRUE].items

\* the records of the adapters 1..i, in dispatch order
RECURSIVE InDispatchOrder(_)
InDispatchOrder(i) ==
    IF i = 0 THEN <<>> ELSE InDispatchOrder(i - 1) \o ListReturnedBy(i)

\* C27: for fixed adapter outcomes the result of the call (contents, order
\* and the winners of timestamp ties) is the same whatever the order in
\* which the seven adapters complete: each outcome is held at its adapter's
\* dispatch position while the others are still running, and the call
\* returns the merge of the outcomes taken in dispatch order.
C27_CompletionOrderIndependent ==
    /\ \A i \in TaskIds :
          /\ status[i] \in {"created", "running"} => chunks[i] = Pending
          /\ status[i] = "raised" => chunks[i] = Failure
          /\ status[i] = "returned" => chunks[i] = Returned(ListReturnedBy(i))
    /\ pc = "done" => ret = MergeOf(InDispatchOrder(Len(Tasks)), limit)

\* C27 witness: the first and the fifth adapter returned records with one
\* key and one timestamp, the third and the sixth undated records; the list
\* returned holds the first adapter's record, then the third's, then the
\* sixth's
C27_Witness ==
    /\ pc = "done"
    /\ ret.kind = "list"
    /\ Len(ret.items) = 3
    /\ chunks[1].items # <<>>
    /\ chunks[5].items # <<>>
    /\ DedupKey(chunks[1].items[1]) = DedupKey(chunks[5].items[1])
    /\ Time(chunks[1].items[1]) = Time(chunks[5].items[1])
    /\ ret.items[1] = chunks[1].items[1]
    /\ chunks[3].items # <<>>
    /\ chunks[6].items # <<>>
    /\ ret.items[2] = chunks[3].items[1]
    /\ ret.items[3] = chunks[6].items[1]
    /\ Time(ret.items[2]) = Time(ret.items[3])

----------------------------------------------------------------------------
(* Termination of fetch_context_items, checked under SpecLive *)

\* The call under the scheduling of the event loop: while a step is
\* possible, one is eventually taken.  The steps are those of the coroutine
\* when it is ready (dispatch, the first turn of each task, gather's
\* wake-up, the merge pass, which never suspends) and the resolution of a
\* running adapter, each of its requests being bounded by its timeout.
\* The limit takes no part in whether the call comes to its end: one value.
InitLive == Init /\ limit = MaxLimit

SpecLive == InitLive /\ [][Next]_vars /\ WF_vars(Next)

\* the call is over, by a return or by an exception
CallOver == pc = "done"

\* C28: when every one of the seven adapters eventually resolves,
\* fetch_context_items eventually returns (a list): no failure or
\* combination of failures of adapters leaves the call suspended.
C28_EventuallyReturns ==
    <>(pc = "done" /\ ret.kind = "list")

\* the call never stays suspended: it always comes to its end
C28_NeverSuspended == <>CallOver

----------------------------------------------------------------------------
(* Claims about the failures of fetch_github_releases, checked under SpecAdapters *)

\* the repository search failed: transport error, error status, or a body
\* that is not a JSON object
GithubSearchFailed ==
    RequestFailed(http[1]) \/ http[1].body.json # "object"

\* an exception left the handling of one repository: an entry without
\* owner or name, or a release answered with a body that is no JSON object
GithubLookupEscaped ==
    \E k \in 1..Len(GithubRepos) :
        \/ GithubRepos[k].shape # "object"
        \/ /\ k + 1 <= Len(http)
           /\ ~RequestFailed(http[k + 1])
           /\ http[k + 1].body.json # "object"

\* the positions of the repositories whose release lookup succeeded
RECURSIVE GithubSucceeded(_)
GithubSucceeded(k) ==
    IF k = 0 THEN <<>>
    ELSE GithubSucceeded(k - 1) \o (IF RequestFailed(http[k + 1]) THEN <<>> ELSE <<k>>)

\* C29: fetch_github_releases returns the empty list whenever the
\* repository search fails or an exception escapes the handling of one
\* repository (an entry without owner or name, a release body that is not
\* valid JSON), whatever it had collected before; otherwise it returns one
\* record per repository whose release lookup succeeded, in the order of
\* the search result.
C29_GithubAllOrNothing ==
    (adapter = "fetch_github_releases" /\ apc = "done" /\ http # <<>>) =>
        /\ aret.kind = "list"
        /\ IF GithubSearchFailed THEN aret.items = <<>>
           ELSE IF GithubLookupEscaped THEN aret.items = <<>>
           ELSE LET won == GithubSucceeded(Len(GithubRepos))
                IN /\ Len(http) = 1 + Len(GithubRepos)
                   /\ Len(aret.items) = Len(won)
                   /\ \A n \in 1..Len(won) :
                         /\ aret.items[n].provider = "github"
                         /\ aret.items[n].source =
                               GithubRepos[won[n]].owner \o "/" \o GithubRepos[won[n]].name

\* C29 witness: the release of the first repository had been collected when
\* the release body of the second turned out not to be valid JSON, and the
\* adapter returned the empty list
C29_Witness ==
    /\ adapter = "fetch_github_releases"
    /\ apc = "done"
    /\ Len(http) = 3
    /\ ~GithubSearchFailed
    /\ Len(items) = 1
    /\ items[1].source = "o/a"
    /\ ~RequestFailed(http[3])
    /\ http[3].body.json = "malformed"
    /\ aret = ReturnList(<<>>)

====
